---- MODULE Spec2Model ----
(***************************************************************************)
(* A model of plot-organizer: the aggregation and SEM engine, the tile     *)
(* renderer (PlotTile.set_plot), the export renderer (_render_plot_to_ax), *)
(* group expansion, the shared-limits calculators, and the main window's   *)
(* grid with its quick-plot action.                                        *)
(*                                                                         *)
(* Numbers are exact rationals <<n, d>> (d > 0, lowest terms); the missing *)
(* value NaN is <<0, 0>>.  A standard error is carried by its square       *)
(* (sem2), which is rational; NaN stays NaN.                               *)
(***************************************************************************)
EXTENDS Integers, Sequences, FiniteSets, TLC

\* -------------------------------------------------------------- state
\* Each specification of this module drives one component; the variables of
\* the other components keep their initial values.
VARIABLES
    adf,      \* the data subset handed to _plot_with_sem
    acall,    \* the arguments of the call made, or NoCall
    adrawn,   \* the elements the call drew on the axes
    alog      \* the warning-level diagnostics logged

aggVars == <<adf, acall, adrawn, alog>>

VARIABLES
    gdf,      \* the dataframe given
    ggroups,  \* the grouping columns given, in order
    gout      \* the outcome of the call, or NoOutcome

groupVars == <<gdf, ggroups, gout>>

VARIABLES
    ldf,       \* the dataframe
    lfilters,  \* the filter queries (each a list of <<col, val>> items)
    lcall,     \* the call made, or NoLimCall
    lout,      \* what the call returned
    lheld      \* the dataframes the caller passed, as they are after the call

limVars == <<ldf, lfilters, lcall, lout, lheld>>

VARIABLES
    tile,      \* the PlotTile
    copy,      \* the fresh tile the last round trip loaded into
    exported,  \* the axes the last export drew for the tile
    saved,     \* the subplots of the file the last export wrote, <<>> if none
    tcall,     \* the last operation ("..._raised" if an exception left it), the
               \* arguments of the last set_plot, whether that call repeated
               \* the one before it and whether a clear_plot came between
    tlog,      \* the warnings the last operation logged
    held       \* the dataframe of each datasource, as the caller holds it

tileVars == <<tile, copy, exported, saved, tcall, tlog, held>>

VARIABLES
    board,        \* the GridBoard: _rows, _cols and the layout's items
    datasources,  \* the ids of the datasources loaded
    dialog,       \* the message box the last action showed, or NoDialog
    bcall         \* the last action, its selection, whether it computed shared
                  \* limits and whether an exception left it

boardVars == <<board, datasources, dialog, bcall>>

VARIABLES
    mdialog   \* the marker-management dialog of the tile: whether it is open,
              \* its list of markers, its last operation and what it selected

dialogVars == <<mdialog>>

\* every variable of the module
vars == <<aggVars, groupVars, limVars, tileVars, boardVars, dialogVars>>

\* what a step of one component leaves alone
AggFrame == UNCHANGED <<groupVars, limVars, tileVars, boardVars, dialogVars>>
GroupsFrame == UNCHANGED <<aggVars, limVars, tileVars, boardVars, dialogVars>>
LimFrame == UNCHANGED <<aggVars, groupVars, tileVars, boardVars, dialogVars>>
TileFrame == UNCHANGED <<aggVars, groupVars, limVars, boardVars, dialogVars>>
BoardFrame == UNCHANGED <<aggVars, groupVars, limVars, tileVars, dialogVars>>
\* a step of the tile with its marker dialog
DialogFrame == UNCHANGED <<aggVars, groupVars, limVars, boardVars>>

\* ------------------------------------------------------------- bounds
\* layout operations in the specification of overlapping tiles
MaxOverlapOps == 4
\* markers of one bucket in the stacking specification
MaxStack == 13
\* operations of the marker-management dialog after a set_plot
MaxDialogOps == 4
\* markers the marker-management dialog may hold
MaxMarkers == 3
\* grid operations in one run of the grid specification
MaxGridOps == 3
\* rows of an enumerated dataframe (aggregation and limits specifications)
MaxRows == 3
\* distinct values of a grouping column (group expansion)
MaxDistinct == 5
\* rows of an enumerated dataframe (shared limits)
MaxLimRows == 2

\* cells the grid may grow to
MaxCells == 9

\* ------------------------------------------------- program constants
\* expand_groups: the cap on the number of combinations
MaxCombos == 50

\* ---------------------------------------------------------- rationals
NaN == <<0, 0>>

IsNaN(v) == v[2] = 0

Abs(n) == IF n < 0 THEN -n ELSE n

RECURSIVE GCD(_, _)
GCD(a, b) == IF b = 0 THEN a ELSE GCD(b, a % b)

Norm(n, d) ==
    LET g == GCD(Abs(n), Abs(d))
        s == IF d < 0 THEN -1 ELSE 1
    IN  <<(s * n) \div g, (s * d) \div g>>

R(n) == <<n, 1>>

RAdd(a, b) == IF IsNaN(a) \/ IsNaN(b) THEN NaN
              ELSE Norm(a[1] * b[2] + b[1] * a[2], a[2] * b[2])

RSub(a, b) == IF IsNaN(a) \/ IsNaN(b) THEN NaN
              ELSE Norm(a[1] * b[2] - b[1] * a[2], a[2] * b[2])

RMul(a, b) == IF IsNaN(a) \/ IsNaN(b) THEN NaN
              ELSE Norm(a[1] * b[1], a[2] * b[2])

RDivInt(a, k) == IF IsNaN(a) \/ k = 0 THEN NaN ELSE Norm(a[1], a[2] * k)

\* a < b on floats: false as soon as one side is NaN
RLess(a, b) == ~IsNaN(a) /\ ~IsNaN(b) /\ a[1] * b[2] < b[1] * a[2]

\* ---------------------------------------------------------- sequences
RECURSIVE SeqSum(_)
SeqSum(vals) == IF vals = <<>> THEN R(0) ELSE RAdd(Head(vals), SeqSum(Tail(vals)))

Range(s) == {s[i] : i \in 1..Len(s)}

RECURSIVE SortedSeq(_)
\* the ascending sequence of a finite set of non-missing numbers
SortedSeq(S) ==
    IF S = {} THEN <<>>
    ELSE LET m == CHOOSE v \in S : \A w \in S : ~RLess(w, v)
         IN  <<m>> \o SortedSeq(S \ {m})

\* ---------------------------------------------------- pandas fragments
\* Series.dropna()
NotNa(vals) == SelectSeq(vals, LAMBDA v : ~IsNaN(v))

\* Series.mean(): the arithmetic mean of the non-missing values, NaN if none
Mean(vals) ==
    LET nn == NotNa(vals)
    IN  IF Len(nn) = 0 THEN NaN ELSE RDivInt(SeqSum(nn), Len(nn))

\* the square of Series.sem() (ddof = 1): the unbiased sample variance of the
\* non-missing values divided by their count; NaN for fewer than two values
Sem2(vals) ==
    LET nn == NotNa(vals)
        n  == Len(nn)
        m  == Mean(nn)
        dev == [i \in 1..n |-> RMul(RSub(nn[i], m), RSub(nn[i], m))]
    IN  IF n < 2 THEN NaN ELSE RDivInt(SeqSum(dev), (n - 1) * n)

\* df[col] as a sequence
Col(df, c) == [i \in 1..Len(df) |-> df[i][c]]

\* df[df[col] == val]
FilterEq(df, c, val) == SelectSeq(df, LAMBDA r : r[c] = val)

\* the keys of df.groupby(col): distinct non-missing values, ascending
GroupKeys(df, c) == SortedSeq({v \in Range(Col(df, c)) : ~IsNaN(v)})

\* mutant of GroupMean: the first y of each group instead of the mean
GroupMeanFirst(df, x, y) ==
    LET ks == GroupKeys(df, x)
    IN  [i \in 1..Len(ks) |-> <<ks[i], Col(FilterEq(df, x, ks[i]), y)[1]>>]

\* df.groupby(x, as_index=False)[y].mean(): one row <<x, mean>> per key
GroupMean(df, x, y) ==
    LET ks == GroupKeys(df, x)
    IN  [i \in 1..Len(ks) |-> <<ks[i], Mean(Col(FilterEq(df, x, ks[i]), y))>>]

\* ------------------------------------------------------- dataframes
\* Every dataframe of the model has these columns: x and y numeric, s the SEM
\* column (a subject id in computed mode, a SEM value in pre-computed mode),
\* g and h categorical.
Columns == {"x", "y", "s", "g", "h"}

\* Python's None for an optional column name, title or label
None == "None"

\* the rows of df.groupby([s, x], as_index=False)[y].mean(): one row per
\* (s, x) pair present with both keys non-missing, ordered by s then x
RECURSIVE GroupMean2From(_, _, _, _, _, _)
GroupMean2From(df, s, x, y, sks, i) ==
    IF i > Len(sks) THEN <<>>
    ELSE LET sub == FilterEq(df, s, sks[i])
             xks == GroupKeys(sub, x)
         IN  [j \in 1..Len(xks) |->
                 [sk |-> sks[i], xk |-> xks[j],
                  m  |-> Mean(Col(FilterEq(sub, x, xks[j]), y))]]
             \o GroupMean2From(df, s, x, y, sks, i + 1)

GroupMean2(df, s, x, y) == GroupMean2From(df, s, x, y, GroupKeys(df, s), 1)

\* ------------------------------------------------ drawn elements
\* a half-width: an exact number, or the square root of one
Exact(r) == [root |-> FALSE, v |-> r]
Root(r2) == [root |-> TRUE, v |-> r2]

\* ax.plot(xs, ys, fmt, label=label): pts are <<x, y>>
Line(pts, fmt, label) == [kind |-> "line", pts |-> pts, fmt |-> fmt, label |-> label]

\* ax.fill_between(xs, mean - sem, mean + sem): pts are <<x, mean, sem>>
Fill(pts) == [kind |-> "band", pts |-> pts, fmt |-> "", label |-> None]

\* PlotTile._get_plot_format
GetPlotFormat(style_line, style_marker) ==
    IF style_line /\ style_marker THEN "-o"
    ELSE IF style_marker THEN "o"
    ELSE "-"

\* mutant of SemStats: one level only, mean and SEM across the raw rows
SemStatsRaw(df, x, y, sem_column) ==
    LET ks == GroupKeys(df, x)
    IN  [i \in 1..Len(ks) |->
            LET ys == Col(FilterEq(df, x, ks[i]), y)
            IN  <<ks[i], Mean(ys), Root(Sem2(ys))>>]

\* grouped.groupby(x)[y].agg(['mean', 'sem']) of the per-subject means
SubjectStats(grouped) ==
    LET ks == GroupKeys(grouped, "xk")
    IN  [i \in 1..Len(ks) |->
            LET ms == Col(FilterEq(grouped, "xk", ks[i]), "m")
            IN  <<ks[i], Mean(ms), Root(Sem2(ms))>>]

\* grouped = df.groupby([sem_column, x])[y].mean() and
\* stats = grouped.groupby(x)[y].agg(['mean', 'sem']): <<x, mean_y, sem_y>>
SemStats(df, x, y, sem_column) == SubjectStats(GroupMean2(df, sem_column, x, y))

\* agg_df = df.groupby(x, as_index=False).agg({y: 'mean', sem_column: 'mean'})
PrecomputedStats(df, x, y, sem_column) ==
    LET ks == GroupKeys(df, x)
    IN  [i \in 1..Len(ks) |->
            LET sub == FilterEq(df, x, ks[i])
            IN  <<ks[i], Mean(Col(sub, y)), Exact(Mean(Col(sub, sem_column)))>>]

\* mutant of HasDuplicates: warns as soon as the subset has two rows
HasDuplicatesAnyTwo(df, x) == Len(df) > 1

\* (dup_check > 1).any() with dup_check = df.groupby(x).size()
HasDuplicates(df, x) ==
    \E k \in Range(GroupKeys(df, x)) : Len(FilterEq(df, x, k)) > 1

\* the mean line and, if some SEM is not missing, the band of a stats table
LineAndBand(stats, fmt, label) ==
    <<Line([i \in 1..Len(stats) |-> <<stats[i][1], stats[i][2]>>], fmt, label)>>
    \o (IF \E i \in 1..Len(stats) : ~IsNaN(stats[i][3].v)
        THEN <<Fill(stats)>> ELSE <<>>)

\* PlotTile._plot_with_precomputed_sem: what it draws and whether it warns
PlotWithPrecomputedSem(df, x, y, sem_column, fmt, label) ==
    [drawn  |-> LineAndBand(PrecomputedStats(df, x, y, sem_column), fmt, label),
     warned |-> HasDuplicates(df, x)]

\* PlotTile._plot_with_sem
PlotWithSem(df, x, y, sem_column, sem_precomputed, fmt, label) ==
    IF sem_column # None /\ sem_column \in Columns
    THEN IF sem_precomputed
         THEN PlotWithPrecomputedSem(df, x, y, sem_column, fmt, label)
         ELSE [drawn  |-> LineAndBand(SemStats(df, x, y, sem_column), fmt, label),
               warned |-> FALSE]
    ELSE [drawn  |-> <<Line(GroupMean(df, x, y), fmt, label)>>,
          warned |-> FALSE]

\* ===================================================================
\* Specification SpecAgg: the aggregation and SEM engine on every small
\* data subset.
\* ===================================================================
NoCall == [sem_column |-> None, sem_precomputed |-> FALSE, fmt |-> "", made |-> FALSE]

\* values of the enumerated subsets
XVals == {R(1), R(2)}
YVals == {R(0), R(3), NaN}
SVals == {R(1), R(2), NaN}

AggRows == {[x |-> xv, y |-> yv, s |-> sv, g |-> "a", h |-> "u"] :
               xv \in XVals, yv \in YVals, sv \in SVals}

SeqsUpTo(S, n) == UNION {[1..k -> S] : k \in 0..n}

\* A groupby result is keyed and sorted, so only the multiset of rows matters:
\* each multiset is enumerated once, its rows listed by descending x (the
\* order the engine has to undo).
NumKey(v) == IF IsNaN(v) THEN 0 ELSE v[1] + 1

RowKey(r) == NumKey(r.x) * 100 + NumKey(r.y) * 10 + NumKey(r.s)

Descending(df) == \A i \in 1..(Len(df) - 1) : RowKey(df[i]) >= RowKey(df[i + 1])

AggInit ==
    /\ adf \in {df \in SeqsUpTo(AggRows, MaxRows) : Descending(df)}
    /\ acall = NoCall
    /\ adrawn = <<>>
    /\ alog = <<>>

\* one call of PlotTile._plot_with_sem(ax, df, x, y, sem_column) on a fresh axes
AggPlot ==
    /\ ~acall.made
    /\ \E sem_column \in {None, "s"}, sem_precomputed \in BOOLEAN,
          style_line \in BOOLEAN, style_marker \in BOOLEAN :
          \E res \in {PlotWithSem(adf, "x", "y", sem_column, sem_precomputed,
                                   GetPlotFormat(style_line, style_marker), None)} :
              /\ acall' = [sem_column |-> sem_column, sem_precomputed |-> sem_precomputed,
                           fmt |-> GetPlotFormat(style_line, style_marker), made |-> TRUE]
              /\ adrawn' = res.drawn
              /\ alog' = IF res.warned THEN <<"warning">> ELSE <<>>
    /\ UNCHANGED adf
    /\ AggFrame

AggNext == AggPlot


\* ------------------------------------------------ claims C4, C5, C6
\* what the claims speak of, from the rows themselves
IdxAt(df, c, v) == {i \in 1..Len(df) : df[i][c] = v}

RECURSIVE SetSum(_, _)
\* the sum of f[i] over the index set I
SetSum(f, I) ==
    IF I = {} THEN R(0)
    ELSE LET i == CHOOSE j \in I : TRUE IN RAdd(f[i], SetSum(f, I \ {i}))

\* the arithmetic mean of the non-missing f[i], i in I (missing if there is none)
MeanOf(f, I) ==
    LET J == {i \in I : ~IsNaN(f[i])}
    IN  IF J = {} THEN NaN ELSE RDivInt(SetSum(f, J), Cardinality(J))

DistinctX(df) == {df[i].x : i \in 1..Len(df)} \ {NaN}

Ascending(pts) == \A i \in 1..(Len(pts) - 1) : RLess(pts[i][1], pts[i + 1][1])

\* C4: with no SEM column the series drawn for a subset has exactly one point
\* per distinct x value of the subset, in ascending x order, and each y is the
\* arithmetic mean of the y values of the rows sharing that x.
C4_NoSemMeanPerX ==
    (acall.made /\ acall.sem_column = None) =>
        /\ Len(adrawn) = 1
        /\ adrawn[1].kind = "line"
        /\ LET pts == adrawn[1].pts
           IN  /\ Len(pts) = Cardinality(DistinctX(adf))
               /\ {pts[i][1] : i \in 1..Len(pts)} = DistinctX(adf)
               /\ Ascending(pts)
               /\ \A i \in 1..Len(pts) :
                      pts[i][2] = MeanOf(Col(adf, "y"), IdxAt(adf, "x", pts[i][1]))

\* a no-SEM call on a subset with two x values, one of them shared by rows of
\* different y
C4_Witness ==
    /\ acall.made /\ acall.sem_column = None
    /\ Len(adrawn) = 1 /\ Len(adrawn[1].pts) = 2
    /\ \E i \in 1..2 : adrawn[1].pts[i][2] = <<3, 2>>

\* the subjects (SEM-column values) with a row at x, and each one's mean there
SubjectsAt(df, xv) == {df[i].s : i \in IdxAt(df, "x", xv)} \ {NaN}

SubjectMean(df, xv, sv) ==
    MeanOf(Col(df, "y"), IdxAt(df, "x", xv) \cap IdxAt(df, "s", sv))

\* the per-subject means at x that are not missing, as a sequence
SubjectMeansAt(df, xv) ==
    LET ms == [i \in 1..Len(SortedSeq(SubjectsAt(df, xv))) |->
                  SubjectMean(df, xv, SortedSeq(SubjectsAt(df, xv))[i])]
    IN  NotNa(ms)

AllEqual(ms) == \A i, j \in 1..Len(ms) : ms[i] = ms[j]

\* C5: in computed-SEM mode the value plotted at x is the mean of the
\* per-subject means at x and the SEM is taken across the same per-subject
\* means (sem^2 * n * (n - 1) is their sum of squared deviations); equal
\* per-subject means give SEM 0 and the common value; a single subject gives an
\* undefined SEM and the mean point is still drawn.
C5_TwoLevelSem ==
    (acall.made /\ acall.sem_column = "s" /\ ~acall.sem_precomputed) =>
        /\ Len(adrawn) >= 1
        /\ adrawn[1].kind = "line"
        /\ \A xv \in DistinctX(adf) :
              LET ms == SubjectMeansAt(adf, xv)
                  n  == Len(ms)
                  I  == {i \in 1..Len(adrawn[1].pts) : adrawn[1].pts[i][1] = xv}
              IN  SubjectsAt(adf, xv) # {} =>
                    /\ Cardinality(I) = 1
                    /\ \A i \in I :
                          LET mean == adrawn[1].pts[i][2]
                              dev  == [k \in 1..n |-> RMul(RSub(ms[k], mean), RSub(ms[k], mean))]
                          IN  /\ mean = MeanOf(ms, 1..n)
                              /\ n >= 2 <=> Len(adrawn) = 2 /\ ~IsNaN(adrawn[2].pts[i][3].v)
                              /\ n >= 2 =>
                                    /\ adrawn[2].pts[i][1] = xv
                                    /\ adrawn[2].pts[i][2] = mean
                                    /\ adrawn[2].pts[i][3].root
                                    /\ RMul(adrawn[2].pts[i][3].v, R(n * (n - 1)))
                                          = SeqSum(dev)
                              /\ (n >= 2 /\ AllEqual(ms)) =>
                                    /\ adrawn[2].pts[i][3].v = R(0)
                                    /\ mean = ms[1]
                              /\ n = 1 => mean = ms[1]

\* a computed-SEM call where the mean of the per-subject means (3/2) is not the
\* mean of the raw rows (1): subject 1 has two rows of y 0, subject 2 one of y 3
C5_Witness ==
    /\ acall.made /\ acall.sem_column = "s" /\ ~acall.sem_precomputed
    /\ Len(adf) = 3
    /\ \A i \in 1..3 : adf[i].x = R(1) /\ ~IsNaN(adf[i].y) /\ ~IsNaN(adf[i].s)
    /\ MeanOf(Col(adf, "y"), 1..3) = R(1)
    /\ Len(adrawn) = 2
    /\ adrawn[1].pts = << <<R(1), <<3, 2>> >> >>

\* C6: in pre-computed SEM mode the series has one point per distinct x, its y
\* the mean of the y values and its band half-width the mean of the SEM-column
\* values of the rows sharing that x; a warning is logged if and only if some x
\* occurs in more than one row; rendering proceeds in both cases.
C6_PrecomputedSem ==
    (acall.made /\ acall.sem_column = "s" /\ acall.sem_precomputed) =>
        /\ Len(adrawn) >= 1
        /\ adrawn[1].kind = "line"
        /\ LET pts == adrawn[1].pts
           IN  /\ Len(pts) = Cardinality(DistinctX(adf))
               /\ {pts[i][1] : i \in 1..Len(pts)} = DistinctX(adf)
               /\ \A i \in 1..Len(pts) :
                     LET I  == IdxAt(adf, "x", pts[i][1])
                         hw == MeanOf(Col(adf, "s"), I)
                     IN  /\ pts[i][2] = MeanOf(Col(adf, "y"), I)
                         /\ ~IsNaN(hw) =>
                               /\ Len(adrawn) = 2
                               /\ adrawn[2].kind = "band"
                               /\ adrawn[2].pts[i] = <<pts[i][1], pts[i][2], Exact(hw)>>
        /\ (alog # <<>>) <=>
              \E i, j \in 1..Len(adf) : i # j /\ adf[i].x = adf[j].x /\ ~IsNaN(adf[i].x)

\* a pre-computed call on a subset where x = 1 occurs twice with SEM values 1
\* and 2: the warning is logged and the band half-width there is 3/2
C6_Witness ==
    /\ acall.made /\ acall.sem_column = "s" /\ acall.sem_precomputed
    /\ alog = <<"warning">>
    /\ Len(adrawn) = 2
    /\ \E i \in 1..Len(adrawn[2].pts) : adrawn[2].pts[i][3] = Exact(<<3, 2>>)

\* ===================================================================
\* Group expansion (plot_service.expand_groups)
\* ===================================================================
\* sorted(df[g].dropna().unique().tolist())
Uniques(df, g) == SortedSeq(Range(NotNa(Col(df, g))))

RECURSIVE Product(_)
\* itertools.product(*uniques): tuples in lexicographic order, last list fastest
Product(uniques) ==
    IF uniques = <<>> THEN << <<>> >>
    ELSE LET rest == Product(Tail(uniques))
             hd   == Head(uniques)
         IN  [i \in 1..(Len(hd) * Len(rest)) |->
                 <<hd[((i - 1) \div Len(rest)) + 1]>> \o rest[((i - 1) % Len(rest)) + 1]]

\* dict(zip(groups, vals)), kept as the ordered list of its items <<col, val>>
ZipDict(groups, vals) == [i \in 1..Len(groups) |-> <<groups[i], vals[i]>>]

\* mutant of ExpandGroups: the limit error is raised from 50 combinations on
ExpandGroupsAtLimit(df, groups) ==
    IF groups = <<>> THEN [raised |-> FALSE, combos |-> << <<>> >>]
    ELSE LET uniques == [i \in 1..Len(groups) |-> Uniques(df, groups[i])]
             prod    == Product(uniques)
             combos  == [i \in 1..Len(prod) |-> ZipDict(groups, prod[i])]
         IN  IF Len(combos) >= MaxCombos
             THEN [raised |-> TRUE, combos |-> <<>>]
             ELSE [raised |-> FALSE, combos |-> combos]

\* expand_groups(df, groups): the list returned, or the ValueError raised
ExpandGroups(df, groups) ==
    IF groups = <<>> THEN [raised |-> FALSE, combos |-> << <<>> >>]
    ELSE LET uniques == [i \in 1..Len(groups) |-> Uniques(df, groups[i])]
             prod    == Product(uniques)
             combos  == [i \in 1..Len(prod) |-> ZipDict(groups, prod[i])]
         IN  IF Len(combos) > MaxCombos
             THEN [raised |-> TRUE, combos |-> <<>>]
             ELSE [raised |-> FALSE, combos |-> combos]

\* ===================================================================
\* Specification SpecGroups: expand_groups on dataframes whose grouping
\* columns g, h, s hold chosen numbers of distinct values.
\* ===================================================================
NoOutcome == [called |-> FALSE, raised |-> FALSE, combos |-> <<>>]

\* the value of a column with n distinct values at row i: the values n..1
\* descending and repeating, the last row missing
GenVal(i, n) ==
    IF n = 0 \/ i = MaxDistinct + 1 THEN NaN ELSE R(n - ((i - 1) % n))

GenDf(ng, nh, ns) ==
    [i \in 1..(MaxDistinct + 1) |->
        [x |-> R(i), y |-> R(i), s |-> GenVal(i, ns), g |-> GenVal(i, ng), h |-> GenVal(i, nh)]]

GroupCols == {"g", "h", "s"}

\* the lists of distinct grouping columns
GroupLists == {gs \in SeqsUpTo(GroupCols, 3) : \A i, j \in 1..Len(gs) : i # j => gs[i] # gs[j]}

GroupsInit ==
    /\ \E ng, nh, ns \in 0..MaxDistinct : gdf = GenDf(ng, nh, ns)
    /\ ggroups \in GroupLists
    /\ gout = NoOutcome

\* one call of expand_groups(df, groups)
GroupsExpand ==
    /\ ~gout.called
    /\ \E res \in {ExpandGroups(gdf, ggroups)} :
           gout' = [called |-> TRUE, raised |-> res.raised, combos |-> res.combos]
    /\ UNCHANGED <<gdf, ggroups>>
    /\ GroupsFrame

\* ------------------------------------------------------- claim C7
DistinctValues(df, c) == {df[i][c] : i \in 1..Len(df)} \ {NaN}

RECURSIVE ProductSize(_, _)
\* n1 * ... * nk, the numbers of distinct non-missing values of the columns
ProductSize(df, groups) ==
    IF groups = <<>> THEN 1
    ELSE Cardinality(DistinctValues(df, Head(groups))) * ProductSize(df, Tail(groups))

\* a before b in the lexicographic order of their values, first column first
LexLess(a, b) ==
    \E j \in 1..Len(a) :
        /\ \A k \in 1..(j - 1) : a[k][2] = b[k][2]
        /\ RLess(a[j][2], b[j][2])

\* C7: expand_groups returns exactly n1*...*nk mappings, one per element of
\* the Cartesian product of the columns' distinct non-missing values, in
\* lexicographic order by input column order; [{}] for an empty column list;
\* it raises the limit error if and only if the product is greater than 50.
C7_ExpandGroups ==
    gout.called =>
        /\ gout.raised <=> ProductSize(gdf, ggroups) > 50
        /\ ~gout.raised =>
              /\ Len(gout.combos) = ProductSize(gdf, ggroups)
              /\ \A i \in 1..Len(gout.combos) :
                    /\ Len(gout.combos[i]) = Len(ggroups)
                    /\ \A j \in 1..Len(ggroups) :
                          /\ gout.combos[i][j][1] = ggroups[j]
                          /\ gout.combos[i][j][2] \in DistinctValues(gdf, ggroups[j])
              /\ \A i \in 1..(Len(gout.combos) - 1) :
                    LexLess(gout.combos[i], gout.combos[i + 1])
        /\ ggroups = <<>> => gout.combos = << <<>> >>

\* a call over three columns with 2, 5 and 5 distinct values: exactly 50
\* combinations, returned
C7_Witness ==
    /\ gout.called /\ ~gout.raised
    /\ Len(ggroups) = 3
    /\ Len(gout.combos) = 50

\* ===================================================================
\* Shared limits (plot_service.shared_limits, shared_limits_with_sem)
\* ===================================================================
\* A cell of an object-typed column that does not parse as a number.  The
\* numeric cells of such a column are numeric strings, which parse to their value.
Text == <<0, -1>>

\* pd.to_numeric(col, errors="coerce")
ToNumeric(vals) == [i \in 1..Len(vals) |-> IF vals[i][2] <= 0 THEN NaN ELSE vals[i]]

\* An axis bound a -/+ sqrt(v): <<a, v>>.  In a list of lower bounds it stands
\* for a - sqrt(v), in a list of upper bounds for a + sqrt(v); v = 0 for a plain
\* number.
Plain(a) == <<a, R(0)>>

BoundIsNaN(b) == IsNaN(b[1]) \/ IsNaN(b[2])

RNeg(a) == IF IsNaN(a) THEN NaN ELSE <<-a[1], a[2]>>

RSq(a) == RMul(a, a)

\* p < sqrt(u) - sqrt(w), for rationals p and u, w >= 0
\* (with q = u + w - p^2 and c = 4uw)
RootDiffTest(p, u, w, q, c) ==
    IF RLess(p, R(0))
    THEN \/ ~RLess(u, w)
         \/ RLess(q, R(0))
         \/ RLess(RSq(q), c)
    ELSE /\ RLess(w, u)
         /\ RLess(R(0), q)
         /\ RLess(c, RSq(q))

LessThanRootDiff(p, u, w) ==
    RootDiffTest(p, u, w, RSub(RAdd(u, w), RSq(p)), RMul(R(4), RMul(u, w)))

\* b1 < b2 as lower bounds: a1 - sqrt(v1) < a2 - sqrt(v2)
LowerLess(b1, b2) ==
    /\ ~BoundIsNaN(b1) /\ ~BoundIsNaN(b2)
    /\ LessThanRootDiff(RSub(b1[1], b2[1]), b1[2], b2[2])

\* b1 > b2 as upper bounds: a2 + sqrt(v2) < a1 + sqrt(v1)
UpperGreater(b1, b2) ==
    /\ ~BoundIsNaN(b1) /\ ~BoundIsNaN(b2)
    /\ LessThanRootDiff(RSub(b2[1], b1[1]), b1[2], b2[2])

RECURSIVE PyMinFrom(_, _, _)
\* Python's min(list): the first element, replaced by each later one that is
\* smaller (a NaN is never smaller, and nothing is smaller than a NaN)
PyMinFrom(bs, i, m) ==
    IF i > Len(bs) THEN m
    ELSE PyMinFrom(bs, i + 1, IF LowerLess(bs[i], m) THEN bs[i] ELSE m)

PyMin(bs) == PyMinFrom(bs, 2, bs[1])

RECURSIVE PyMaxFrom(_, _, _)
PyMaxFrom(bs, i, m) ==
    IF i > Len(bs) THEN m
    ELSE PyMaxFrom(bs, i + 1, IF UpperGreater(bs[i], m) THEN bs[i] ELSE m)

\* Python's max(list)
PyMax(bs) == PyMaxFrom(bs, 2, bs[1])

\* Series.min() and Series.max(): over the non-missing values
SeriesMin(vals) == PyMin([i \in 1..Len(NotNa(vals)) |-> Plain(NotNa(vals)[i])])

SeriesMax(vals) == PyMax([i \in 1..Len(NotNa(vals)) |-> Plain(NotNa(vals)[i])])

AnyNotNa(vals) == \E i \in 1..Len(vals) : ~IsNaN(vals[i])

\* the fallback range
DefaultLimits == [x |-> <<Plain(R(0)), Plain(R(1))>>, y |-> <<Plain(R(0)), Plain(R(1))>>]

\* the four accumulators after the return statement
LimitsOf(acc) ==
    IF acc.xmins = <<>> \/ acc.ymins = <<>>
    THEN DefaultLimits
    ELSE [x |-> <<PyMin(acc.xmins), PyMax(acc.xmaxs)>>,
          y |-> <<PyMin(acc.ymins), PyMax(acc.ymaxs)>>]

EmptyAcc == [xmins |-> <<>>, xmaxs |-> <<>>, ymins |-> <<>>, ymaxs |-> <<>>]

\* acc with the numeric range of column c of sub appended to the x accumulators
AccXNum(acc, xnum) ==
    IF AnyNotNa(xnum)
    THEN [acc EXCEPT !.xmins = Append(@, SeriesMin(xnum)),
                     !.xmaxs = Append(@, SeriesMax(xnum))]
    ELSE acc

AccX(acc, sub, c) == AccXNum(acc, ToNumeric(Col(sub, c)))

\* acc with the numeric range of the values ys appended to the y accumulators
AccYNum(acc, ynum) ==
    IF AnyNotNa(ynum)
    THEN [acc EXCEPT !.ymins = Append(@, SeriesMin(ynum)),
                     !.ymaxs = Append(@, SeriesMax(ynum))]
    ELSE acc

AccY(acc, ys) == AccYNum(acc, ToNumeric(ys))

RECURSIVE SharedLimitsLoopSkip(_, _, _, _, _)
\* mutant of SharedLimitsLoop: a subset with no numeric y is skipped whole
SharedLimitsLoopSkip(subsets, x, y, i, acc) ==
    IF i > Len(subsets) THEN acc
    ELSE IF subsets[i] = <<>> \/ ~AnyNotNa(ToNumeric(Col(subsets[i], y)))
         THEN SharedLimitsLoopSkip(subsets, x, y, i + 1, acc)
         ELSE SharedLimitsLoopSkip(subsets, x, y, i + 1,
                                   AccY(AccX(acc, subsets[i], x), Col(subsets[i], y)))

RECURSIVE SharedLimitsLoop(_, _, _, _, _)
\* the loop of shared_limits over the subsets
SharedLimitsLoop(subsets, x, y, i, acc) ==
    IF i > Len(subsets) THEN acc
    ELSE IF subsets[i] = <<>>
         THEN SharedLimitsLoop(subsets, x, y, i + 1, acc)
         ELSE SharedLimitsLoop(subsets, x, y, i + 1,
                               AccY(AccX(acc, subsets[i], x), Col(subsets[i], y)))

\* shared_limits(subsets, x, y)
SharedLimits(subsets, x, y) == LimitsOf(SharedLimitsLoop(subsets, x, y, 1, EmptyAcc))


\* ---------------------------------------- hue: None | str | list[str]
HueNone == [kind |-> "none", cols |-> <<>>]
HueStr(c) == [kind |-> "str", cols |-> <<c>>]
HueList(cs) == [kind |-> "list", cols |-> cs]

\* Python truthiness of a hue value
HueTruthy(hue) == hue.kind = "str" \/ (hue.kind = "list" /\ hue.cols # <<>>)

RECURSIVE ApplyFilter(_, _)
\* for col, val in fq.items(): subset = subset[subset[col] == val]
ApplyFilter(df, fq) ==
    IF fq = <<>> THEN df
    ELSE ApplyFilter(FilterEq(df, Head(fq)[1], Head(fq)[2]), Tail(fq))

\* sems.fillna(0), squared
FillNa0(hw) == IF IsNaN(hw.v) THEN R(0) ELSE IF hw.root THEN hw.v ELSE RSq(hw.v)

\* (means -/+ sems).tolist() of a stats table: one bound per x
BoundsOf(stats) == [i \in 1..Len(stats) |-> <<stats[i][2], FillNa0(stats[i][3])>>]

\* mutant of ComputeSemStats: the SEM column's values are taken as the SEM
ComputeSemStatsAsGiven(df, x, y, sem_column) ==
    BoundsOf(PrecomputedStats(df, x, y, sem_column))

\* _compute_sem_stats / _compute_precomputed_sem_stats: the bounds, <<>> for None
ComputeSemStats(df, x, y, sem_column) == BoundsOf(SemStats(df, x, y, sem_column))

ComputePrecomputedSemStats(df, x, y, sem_column) ==
    BoundsOf(PrecomputedStats(df, x, y, sem_column))

\* the y accumulators after one frame (a hue group or the whole slice)
\* ymins.extend(y_mins); ymaxs.extend(y_maxs), both lists carried as one
Extend(acc, y_vals) == [acc EXCEPT !.ymins = @ \o y_vals, !.ymaxs = @ \o y_vals]

\* agg[y] of a table of means
MeanColumn(agg) == [i \in 1..Len(agg) |-> agg[i][2]]

AccYFrame(acc, sub, x, y, sem_column, sem_precomputed) ==
    IF sem_column # None /\ sem_column \in Columns
    THEN Extend(acc, IF sem_precomputed
                     THEN ComputePrecomputedSemStats(sub, x, y, sem_column)
                     ELSE ComputeSemStats(sub, x, y, sem_column))
    ELSE AccY(acc, MeanColumn(GroupMean(sub, x, y)))

RECURSIVE AccYGroups(_, _, _, _, _, _, _, _, _)
\* for _, hue_sub in subset.groupby(hue): ...
AccYGroups(acc, sub, hue, ks, i, x, y, sem_column, sem_precomputed) ==
    IF i > Len(ks) THEN acc
    ELSE AccYGroups(AccYFrame(acc, FilterEq(sub, hue, ks[i]), x, y, sem_column, sem_precomputed),
                    sub, hue, ks, i + 1, x, y, sem_column, sem_precomputed)

RECURSIVE SemLimitsLoop(_, _, _, _, _, _, _, _, _)
\* the body of the loop for one slice: skipped if the slice is empty, else
\* the x range, then the y bounds per hue group or of the whole slice
SemLimitsStep(acc, subset, x, y, sem_column, hue, sem_precomputed) ==
    IF subset = <<>> THEN acc
    ELSE IF hue.kind = "str" /\ hue.cols[1] \in Columns
    THEN AccYGroups(AccX(acc, subset, x), subset, hue.cols[1],
                    GroupKeys(subset, hue.cols[1]), 1, x, y, sem_column, sem_precomputed)
    ELSE AccYFrame(AccX(acc, subset, x), subset, x, y, sem_column, sem_precomputed)

SemLimitsLoop(df, fqs, x, y, sem_column, hue, sem_precomputed, i, acc) ==
    IF i > Len(fqs) THEN acc
    ELSE SemLimitsLoop(df, fqs, x, y, sem_column, hue, sem_precomputed, i + 1,
                       SemLimitsStep(acc, ApplyFilter(df, fqs[i]), x, y, sem_column,
                                     hue, sem_precomputed))

\* limits returned without an exception
Returned(lim) == [raised |-> FALSE, x |-> lim.x, y |-> lim.y]

\* shared_limits_with_sem(df, filter_queries, x, y, sem_column, hue, sem_precomputed):
\* the limits returned, or the TypeError of "hue in subset.columns" for a
\* non-empty list reached with a non-empty slice
SharedLimitsWithSem(df, fqs, x, y, sem_column, hue, sem_precomputed) ==
    IF /\ hue.kind = "list" /\ hue.cols # <<>>
       /\ \E i \in 1..Len(fqs) : ApplyFilter(df, fqs[i]) # <<>>
    THEN [raised |-> TRUE, x |-> <<>>, y |-> <<>>]
    ELSE Returned(LimitsOf(SemLimitsLoop(df, fqs, x, y, sem_column, hue,
                                         sem_precomputed, 1, EmptyAcc)))

\* ===================================================================
\* Specification SpecLim: both limit calculators on every small
\* dataframe and filter list.
\* ===================================================================
NoLimCall == [fn |-> "none", sem_column |-> None, hue |-> HueNone, sem_precomputed |-> FALSE]

NoLimits == [raised |-> FALSE, x |-> <<>>, y |-> <<>>]

LimRows == {[x |-> xv, y |-> yv, s |-> sv, g |-> gv, h |-> R(1)] :
               xv \in {R(1), R(2), NaN}, yv \in {R(0), R(3), NaN, Text},
               sv \in {R(1), R(2)}, gv \in {R(1), R(2)}}

LimRowKey(r) ==
    NumKey(r.x) * 1000 + (IF r.y = Text THEN 9 ELSE NumKey(r.y)) * 100
        + NumKey(r.s) * 10 + NumKey(r.g)

LimDescending(df) == \A i \in 1..(Len(df) - 1) : LimRowKey(df[i]) >= LimRowKey(df[i + 1])

\* no filter, or one filter per value of g
LimFilterLists == { << <<>> >>, << << <<"g", R(1)>> >>, << <<"g", R(2)>> >> >> }

\* the columns of a frame hold floats (no object-typed column)
NumericFrame(df) == \A i \in 1..Len(df) : df[i].y # Text

\* ------------------------------------------------ dataframe objects
\* a dataframe as the caller holds it: its columns and its rows
Frame(rows) == [columns |-> Columns, rows |-> rows]

\* a dataframe object inside a call: own is false while it is the object the
\* caller passed, true for an object the call created
Given(frame) == [own |-> FALSE, columns |-> frame.columns, rows |-> frame.rows]

\* subset = subset[subset[col] == val] for each item: boolean indexing
\* returns a new object; without items the name still refers to the old one
MaskedItems(w, items) ==
    IF items = <<>> THEN w
    ELSE [own |-> TRUE, columns |-> w.columns, rows |-> ApplyFilter(w.rows, items)]

\* mutation: sub[c] = pd.to_numeric(sub[c], errors="coerce") written back
AfterToNumericInPlace(w, c) ==
    [w EXCEPT !.rows = [i \in 1..Len(w.rows) |->
                           [w.rows[i] EXCEPT ![c] = IF @ = Text THEN NaN ELSE @]]]

\* pd.to_numeric(sub[c], errors="coerce") returns a new Series: the frame is
\* as before
AfterToNumeric(w, c) == w

\* the caller's dataframe once the call has worked on w: the caller sees what
\* was written to w only if w is the caller's own object
CallerAfter(frame, w) ==
    IF w.own THEN frame ELSE [columns |-> w.columns, rows |-> w.rows]

\* shared_limits: each subset passed, after the call
SharedLimitsFrames(subsets) ==
    [i \in 1..Len(subsets) |->
        IF subsets[i].rows = <<>> THEN subsets[i]
        ELSE CallerAfter(subsets[i],
                         AfterToNumeric(AfterToNumeric(Given(subsets[i]), "x"), "y"))]

\* one pass of the loop of shared_limits_with_sem over the slice w of frame
AfterSlice(frame, w) ==
    IF w.rows = <<>> THEN frame ELSE CallerAfter(frame, AfterToNumeric(w, "x"))

RECURSIVE SemLimitsFrame(_, _, _)
\* shared_limits_with_sem: the dataframe passed, after the filters from the
\* i-th on (`subset = df` and then the mask of each item)
SemLimitsFrame(frame, fqs, i) ==
    IF i > Len(fqs) THEN frame
    ELSE SemLimitsFrame(AfterSlice(frame, MaskedItems(Given(frame), fqs[i])), fqs, i + 1)

LimInit ==
    /\ ldf \in {df \in SeqsUpTo(LimRows, MaxLimRows) : LimDescending(df)}
    /\ lfilters \in LimFilterLists
    /\ lcall = NoLimCall
    /\ lout = NoLimits
    /\ lheld = <<>>

\* the caller slices the dataframe by each filter and calls shared_limits
LimRaw ==
    /\ lcall.fn = "none"
    /\ lout' = Returned(SharedLimits([i \in 1..Len(lfilters) |->
                                         ApplyFilter(ldf, lfilters[i])], "x", "y"))
    /\ lcall' = [NoLimCall EXCEPT !.fn = "shared_limits"]
    /\ lheld' = SharedLimitsFrames([i \in 1..Len(lfilters) |->
                                       Frame(ApplyFilter(ldf, lfilters[i]))])
    /\ UNCHANGED <<ldf, lfilters>>
    /\ LimFrame

\* one call of shared_limits_with_sem on a dataframe of numeric columns
LimSem ==
    /\ lcall.fn = "none"
    /\ NumericFrame(ldf)
    /\ \E sem_column \in {None, "s"}, sem_precomputed \in BOOLEAN,
          hue \in {HueNone, HueStr("g"), HueList(<<"g", "h">>)} :
          /\ lout' = SharedLimitsWithSem(ldf, lfilters, "x", "y", sem_column, hue,
                                         sem_precomputed)
          /\ lcall' = [fn |-> "shared_limits_with_sem", sem_column |-> sem_column,
                       hue |-> hue, sem_precomputed |-> sem_precomputed]
    /\ lheld' = <<SemLimitsFrame(Frame(ldf), lfilters, 1)>>
    /\ UNCHANGED <<ldf, lfilters>>
    /\ LimFrame

LimNext == LimRaw \/ LimSem


\* ------------------------------------------------ claims C9, C10
\* the rows of the dataframe that lie in some filtered subset
RowsInSubsets == {i \in 1..Len(ldf) : \E k \in 1..Len(lfilters) :
                     \A j \in 1..Len(lfilters[k]) :
                         ldf[i][lfilters[k][j][1]] = lfilters[k][j][2]}

\* the values of column c over all subsets that parse as numbers
NumericVals(c) == {ldf[i][c] : i \in RowsInSubsets} \ {NaN, Text}

SetMin(S) == CHOOSE v \in S : \A w \in S : ~RLess(w, v)

SetMax(S) == CHOOSE v \in S : \A w \in S : ~RLess(v, w)

RangeOf(S) == <<Plain(SetMin(S)), Plain(SetMax(S))>>

\* C9 as stated: shared_limits returns for x and for y independently the
\* minimum and maximum of the numeric values of that column over all subsets.
C9_Original ==
    lcall.fn = "shared_limits" =>
        /\ NumericVals("x") # {} => lout.x = RangeOf(NumericVals("x"))
        /\ NumericVals("y") # {} => lout.y = RangeOf(NumericVals("y"))

\* C9 (amended): when each of the two columns has a numeric value in some
\* subset, shared_limits returns for x and for y the minimum and maximum of the
\* numeric values of that column over all subsets: unparseable values are
\* excluded, and a subset with no numeric value in one column still
\* contributes its other column.  (When one column has none at all, both axes
\* get the default range.)
C9_SharedLimits ==
    lcall.fn = "shared_limits" =>
        /\ (NumericVals("x") # {} /\ NumericVals("y") # {}) =>
              /\ lout.x = RangeOf(NumericVals("x"))
              /\ lout.y = RangeOf(NumericVals("y"))
        /\ (NumericVals("x") = {} \/ NumericVals("y") = {}) =>
              /\ lout.x = DefaultLimits.x
              /\ lout.y = DefaultLimits.y

\* two subsets (g = 1, g = 2): one has an unparseable y and the largest x, the
\* other a numeric y; the x-range spans both, the y-range comes from one
C9_Witness ==
    /\ lcall.fn = "shared_limits"
    /\ Len(lfilters) = 2 /\ Len(ldf) = 2
    /\ \E i, j \in 1..2 :
          /\ ldf[i].y = Text /\ ldf[i].x = R(2) /\ ldf[i].g # ldf[j].g
          /\ ldf[j].y = R(3) /\ ldf[j].x = R(1)
    /\ lout.x = <<Plain(R(1)), Plain(R(2))>>
    /\ lout.y = <<Plain(R(3)), Plain(R(3))>>

\* C10: shared_limits and shared_limits_with_sem return the default
\* ((0.0, 1.0), (0.0, 1.0)) for both axes, without raising, when one of the two
\* axes has no valid numeric value in any subset (or filtered slice).
C10_DefaultWhenNoNumeric ==
    (lcall.fn # "none" /\ (NumericVals("x") = {} \/ NumericVals("y") = {})) =>
        /\ ~lout.raised
        /\ lout.x = <<Plain(R(0)), Plain(R(1))>>
        /\ lout.y = <<Plain(R(0)), Plain(R(1))>>

\* ------------------------------------------------------- claim C11
\* the non-empty filtered slices of the dataframe
Slices == {ApplyFilter(ldf, lfilters[k]) : k \in 1..Len(lfilters)} \ {<<>>}

\* the frames the renderer draws one series for: the slice itself without hue,
\* else the rows of the slice that agree on every hue column
SeriesFrames(df, hue) ==
    IF ~HueTruthy(hue) THEN {df}
    ELSE {SelectSeq(df, LAMBDA r : \A j \in 1..Len(hue.cols) :
                                      r[hue.cols[j]] = df[i][hue.cols[j]]) :
             i \in 1..Len(df)}

\* the table <<x, mean, half-width>> of the series drawn for a frame
SeriesStats(df, sem_column, sem_precomputed) ==
    IF sem_column = None
    THEN [i \in 1..Len(GroupMean(df, "x", "y")) |->
             <<GroupMean(df, "x", "y")[i][1], GroupMean(df, "x", "y")[i][2], Exact(R(0))>>]
    ELSE IF sem_precomputed THEN PrecomputedStats(df, "x", "y", sem_column)
    ELSE SemStats(df, "x", "y", sem_column)

\* mean -/+ SEM at every x of every series of every slice, a missing SEM
\* counted as 0
FoldedBounds ==
    UNION {UNION {{<<SeriesStats(f, lcall.sem_column, lcall.sem_precomputed)[i][2],
                     FillNa0(SeriesStats(f, lcall.sem_column, lcall.sem_precomputed)[i][3])>> :
                      i \in 1..Len(SeriesStats(f, lcall.sem_column, lcall.sem_precomputed))} :
                  f \in SeriesFrames(sl, lcall.hue)} :
           sl \in Slices}

\* C11: shared_limits_with_sem returns as x-range the range of the slices'
\* numeric x, and as y-range the least mean - SEM and the greatest mean + SEM
\* over every x of every series the renderer would draw: one series per hue
\* group for a hue column or a list of hue columns, one per slice without
\* hue, the plain mean without a SEM column, a missing SEM counted as 0.
\* (Stated for calls in which every mean is a number.)
C11_SemLimitsFold ==
    (/\ lcall.fn = "shared_limits_with_sem"
     /\ NumericVals("x") # {}
     /\ FoldedBounds # {}
     /\ \A b \in FoldedBounds : ~BoundIsNaN(b)) =>
        /\ ~lout.raised
        /\ lout.x = RangeOf(NumericVals("x"))
        /\ lout.y[1] \in FoldedBounds
        /\ \A b \in FoldedBounds : ~LowerLess(b, lout.y[1])
        /\ lout.y[2] \in FoldedBounds
        /\ \A b \in FoldedBounds : ~UpperGreater(b, lout.y[2])

\* the same for a hue that is absent or one column name
C11_ScalarHue == lcall.hue.kind # "list" => C11_SemLimitsFold

\* ------------------------------------------------------- claim C12
\* the y-range shared_limits returns for the same filtered subsets
RawYLim ==
    SharedLimits([k \in 1..Len(lfilters) |-> ApplyFilter(ldf, lfilters[k])], "x", "y").y

\* lo <= a - sqrt(v) and a + sqrt(v) <= hi for the returned bounds, as floats
\* compare (a comparison with NaN is false)
WithinRaw ==
    /\ ~BoundIsNaN(lout.y[1]) /\ ~LowerLess(lout.y[1], RawYLim[1])
    /\ ~BoundIsNaN(lout.y[2]) /\ ~UpperGreater(lout.y[2], RawYLim[2])

NoneLimit == [kind |-> "none", lo |-> Plain(NaN), hi |-> Plain(NaN)]
TupleLimit(lo, hi) == [kind |-> "tuple", lo |-> lo, hi |-> hi]
ListLimit(lo, hi) == [kind |-> "list", lo |-> lo, hi |-> hi]

\* Optional[dict]: None, or the items of the dictionary in insertion order
FilterNone == [none |-> TRUE, items |-> <<>>]
FilterDict(items) == [none |-> FALSE, items |-> items]

\* `if filter_query:` is false for None and for {}
FilterTruthy(fq) == ~fq.none /\ fq.items # <<>>

\* plot_df[col] raises KeyError for a column the dataframe does not have
FilterRaises(fq) ==
    FilterTruthy(fq) /\ \E j \in 1..Len(fq.items) : fq.items[j][1] \notin Columns

\* a key that a marker dictionary does not have
Absent == "absent"

\* ------------------------------------------------ matplotlib axes
\* the view range of one axis: autoscaled, or fixed by set_xlim / set_ylim
AutoView == [auto |-> TRUE, lo |-> Plain(NaN), hi |-> Plain(NaN)]
FixedView(lo, hi) == [auto |-> FALSE, lo |-> lo, hi |-> hi]

\* a new axes, and an axes after ax.clear()
FreshAxes ==
    [title |-> "", xlabel |-> "", ylabel |-> "", elems |-> <<>>,
     legend |-> FALSE, legend_labels |-> <<>>,
     xview |-> AutoView, yview |-> AutoView, minor_locator |-> FALSE]

\* ax.text(0.5, 0.5, "No data", ...)
NoDataText ==
    [kind |-> "text", pts |-> <<RDivInt(R(1), 2), RDivInt(R(1), 2)>>, fmt |-> "",
     label |-> "No data"]

\* ax.axhline(y=yval, ...), ax.axvline(x=xval, ...)
HLine(yval) == [kind |-> "hline", pts |-> <<yval>>, fmt |-> "--", label |-> None]
VLine(xval) == [kind |-> "vline", pts |-> <<xval>>, fmt |-> "--", label |-> None]

\* ax.errorbar(x=, y=, xerr=, yerr=, fmt=, color=, label=)
ErrorBar(xc, yc, xerr, yerr, fmt, color, label) ==
    [kind |-> "errorbar",
     pts |-> <<[x |-> xc, y |-> yc, xerr |-> xerr, yerr |-> yerr, color |-> color]>>,
     fmt |-> fmt, label |-> label]

\* a coordinate the marker gives
Coord(v) == [given |-> TRUE, v |-> v, i |-> 0, view |-> AutoView]

\* mutation: markers stacked 10% of the range apart
AutoCoordTenth(i, view) ==
    [given |-> FALSE,
     v |-> IF view.auto \/ view.lo[2] # R(0) \/ view.hi[2] # R(0) THEN NaN
           ELSE RSub(view.hi[1], RMul(RDivInt(R(5 + 10 * i), 100),
                                      RSub(view.hi[1], view.lo[1]))),
     i |-> i, view |-> view]

\* mutation: markers stacked 9% of the range apart
AutoCoordNinth(i, view) ==
    [given |-> FALSE,
     v |-> IF view.auto \/ view.lo[2] # R(0) \/ view.hi[2] # R(0) THEN NaN
           ELSE RSub(view.hi[1], RMul(RDivInt(R(5 + 9 * i), 100),
                                      RSub(view.hi[1], view.lo[1]))),
     i |-> i, view |-> view]

\* lim[1] - (0.05 + i * 0.08) * range on the view range in effect: a function
\* of the range and of i, with its number worked out when the range is fixed
\* to two rationals
AutoCoord(i, view) ==
    [given |-> FALSE,
     v |-> IF view.auto \/ view.lo[2] # R(0) \/ view.hi[2] # R(0) THEN NaN
           ELSE RSub(view.hi[1], RMul(RDivInt(R(5 + 8 * i), 100),
                                      RSub(view.hi[1], view.lo[1]))),
     i |-> i, view |-> view]

\* ax.legend(): one entry per labelled line on the axes
Legend(ax) ==
    LET lines == SelectSeq(ax.elems, LAMBDA e : e.kind = "line" /\ e.label # None)
    IN  [ax EXCEPT !.legend = TRUE,
                   !.legend_labels = [i \in 1..Len(lines) |-> lines[i].label]]

\* ------------------------------------------------ hue groups
\* str(v) of a category value
Str(v) == IF IsNaN(v) THEN "nan" ELSE ToString(v[1])

RECURSIVE Join(_, _)
\* sep.join(parts)
Join(parts, sep) ==
    IF parts = <<>> THEN ""
    ELSE IF Len(parts) = 1 THEN parts[1]
    ELSE parts[1] \o sep \o Join(Tail(parts), sep)

\* ", ".join(f"{col}={row[col]}" for col in hue) for the rows with these values
CompositeLabel(cols, vals) ==
    Join([i \in 1..Len(cols) |-> cols[i] \o "=" \o Str(vals[i])], ", ")

\* str(key) of a groupby key: a scalar for a column name, a tuple for a list
KeyLabel(hue, vals) ==
    IF hue.kind = "str" THEN Str(vals[1])
    ELSE IF Len(vals) = 1 THEN "(" \o Str(vals[1]) \o ",)"
    ELSE "(" \o Join([i \in 1..Len(vals) |-> Str(vals[i])], ", ") \o ")"

\* the keys of df.groupby(cols): the value combinations present, ascending
HueKeys(df, cols) ==
    SelectSeq(Product([i \in 1..Len(cols) |-> GroupKeys(df, cols[i])]),
              LAMBDA vals : ApplyFilter(df, ZipDict(cols, vals)) # <<>>)

\* what one group drew followed by what the later groups drew, and the
\* number of warnings logged
Series(one, rest) ==
    [drawn  |-> one.drawn \o rest.drawn,
     warned |-> (IF one.warned THEN 1 ELSE 0) + rest.warned]

RECURSIVE PlotGroups(_, _, _, _, _, _, _, _, _, _)
\* for key, sub in plot_df.groupby(...): plot_with_sem(sub, label=...)
PlotGroups(df, cols, keys, labels, i, x, y, sem_column, sem_precomputed, fmt) ==
    IF i > Len(keys) THEN [drawn |-> <<>>, warned |-> 0]
    ELSE Series(PlotWithSem(ApplyFilter(df, ZipDict(cols, keys[i])), x, y, sem_column,
                            sem_precomputed, fmt, labels[i]),
                PlotGroups(df, cols, keys, labels, i + 1, x, y, sem_column,
                           sem_precomputed, fmt))

\* ------------------------------------------------ error markers
\* marker.get("marker", "v") and marker.get("color", "red")
MarkerShape(m) == IF m.marker = Absent THEN "v" ELSE m.marker
MarkerColor(m) == IF m.color = Absent THEN "red" ELSE m.color

\* mutation: a marker with both errors is not an x-error marker
XMarkersWithoutYerr(markers) ==
    SelectSeq(markers, LAMBDA m : ~IsNaN(m.xerr) /\ IsNaN(m.yerr))

\* the markers with xerr, and those without xerr that have yerr
XMarkers(markers) == SelectSeq(markers, LAMBDA m : ~IsNaN(m.xerr))
YMarkers(markers) == SelectSeq(markers, LAMBDA m : IsNaN(m.xerr) /\ ~IsNaN(m.yerr))

\* PlotTile._render_error_markers: every marker is drawn with fmt='v'
RenderErrorMarkers(ax, markers) ==
    LET xm == XMarkers(markers)
        ym == YMarkers(markers)
        xbars == [i \in 1..Len(xm) |->
                     ErrorBar(Coord(xm[i].x),
                              IF IsNaN(xm[i].y) THEN AutoCoord(i - 1, ax.yview)
                                                ELSE Coord(xm[i].y),
                              xm[i].xerr, NaN, "v", MarkerColor(xm[i]), xm[i].label)]
        ybars == [i \in 1..Len(ym) |->
                     ErrorBar(IF IsNaN(ym[i].x) THEN AutoCoord(i - 1, ax.xview)
                                                ELSE Coord(ym[i].x),
                              Coord(ym[i].y),
                              NaN, ym[i].yerr, "v", MarkerColor(ym[i]), ym[i].label)]
    IN  [ax EXCEPT !.elems = @ \o xbars \o ybars]

\* export_service._render_error_markers_to_ax: fmt is the marker's shape
RenderErrorMarkersToAx(ax, markers) ==
    LET xm == XMarkers(markers)
        ym == YMarkers(markers)
        xbars == [i \in 1..Len(xm) |->
                     ErrorBar(Coord(xm[i].x),
                              IF IsNaN(xm[i].y) THEN AutoCoord(i - 1, ax.yview)
                                                ELSE Coord(xm[i].y),
                              xm[i].xerr, NaN, MarkerShape(xm[i]), MarkerColor(xm[i]),
                              xm[i].label)]
        ybars == [i \in 1..Len(ym) |->
                     ErrorBar(IF IsNaN(ym[i].x) THEN AutoCoord(i - 1, ax.xview)
                                                ELSE Coord(ym[i].x),
                              Coord(ym[i].y),
                              NaN, ym[i].yerr, MarkerShape(ym[i]), MarkerColor(ym[i]),
                              ym[i].label)]
    IN  [ax EXCEPT !.elems = @ \o xbars \o ybars]

\* ------------------------------------------------ the tile
\* the datasources of the session, by id
DataSources == {"ds1", "ds2", "ds3"}

Row(xv, yv, sv, gv, hv) == [x |-> xv, y |-> yv, s |-> sv, g |-> gv, h |-> hv]

\* ds1: duplicate x values, two subjects, a missing y, two categorical columns
\* ds2: one row per x
\* ds3: eight values of g and seven of h, 56 combinations
Data(id) ==
    IF id = "ds1"
    THEN << Row(R(2), R(3), R(1), R(1), R(1)), Row(R(1), R(0), R(1), R(1), R(1)),
            Row(R(1), R(3), R(2), R(1), R(1)), Row(R(3), R(3), R(1), R(1), R(2)),
            Row(R(2), R(0), R(2), R(1), R(2)), Row(R(2), NaN,  R(2), R(2), R(1)),
            Row(R(1), R(3), R(1), R(2), R(1)), Row(R(1), R(0), R(1), R(2), R(2)) >>
    ELSE IF id = "ds2"
    THEN << Row(R(2), R(3), R(2), R(2), R(1)), Row(R(1), R(0), R(1), R(1), R(1)) >>
    ELSE [i \in 1..8 |-> Row(R(i), R(i % 3), R(1), R(i), R(((i - 1) % 7) + 1))]

\* ------------------------------------------------ the caller's dataframe
CompositeName == "__composite_hue__"

\* mutation: plot_df = df, the working frame is the caller's object
CopyOfAlias(w) == w

\* df.copy(): a new object
CopyOf(w) == [w EXCEPT !.own = TRUE]

\* `if filter_query:` and the mask of each item
Masked(w, fq) == IF FilterTruthy(fq) THEN MaskedItems(w, fq.items) ELSE w

\* plot_df["__composite_hue__"] = plot_df.apply(...) for a list of columns:
\* the column is written into the object the name refers to
WithComposite(w, hue) ==
    IF hue.kind = "list" /\ hue.cols # <<>>
    THEN [w EXCEPT
            !.columns = @ \cup {CompositeName},
            !.rows = [i \in 1..Len(w.rows) |->
                         [c \in w.columns \cup {CompositeName} |->
                             IF c = CompositeName
                             THEN CompositeLabel(hue.cols,
                                                 [j \in 1..Len(hue.cols) |->
                                                     w.rows[i][hue.cols[j]]])
                             ELSE w.rows[i][c]]]]
    ELSE w

\* the working frame plot_df of set_plot: a copy, filtered, with the composite
\* column; the KeyError of the filter leaves the call with the copy
SetPlotWorking(w, a) ==
    IF FilterRaises(a.filter_query) THEN CopyOf(w)
    ELSE WithComposite(Masked(CopyOf(w), a.filter_query), a.hue)

\* the caller's dataframe after set_plot with arguments a
SetPlotFrame(frame, a) == CallerAfter(frame, SetPlotWorking(Given(frame), a))

\* the caller's dataframe after _render_plot_to_ax of tile t: `plot_df = df`
\* and the masks; the hue columns are passed to groupby
ExportFrame(frame, t) ==
    IF FilterRaises(t.filter_query) THEN frame
    ELSE CallerAfter(frame, Masked(Given(frame), t.filter_query))

\* PlotTile.__init__: the retained fields and an empty figure
FreshTile ==
    [df |-> None, x |-> None, y |-> None, hue |-> HueNone, sem_column |-> None,
     sem_precomputed |-> FALSE, filter_query |-> FilterNone,
     hlines |-> <<>>, vlines |-> <<>>, style_line |-> TRUE, style_marker |-> FALSE,
     ylim |-> NoneLimit, error_markers |-> <<>>, figure |-> <<>>]

\* PlotTile.is_empty
IsEmpty(t) == t.df = None

\* mutant of ReuseOrCreateAxes: the existing axes is reused without ax.clear()
ReuseAxesUncleared(figure) == IF figure # <<>> THEN figure ELSE <<FreshAxes>>

\* `if self.figure.axes: ax = axes[0]; ax.clear()  else: ax = figure.subplots()`
ReuseOrCreateAxes(figure) ==
    IF figure # <<>> THEN [figure EXCEPT ![1] = FreshAxes] ELSE <<FreshAxes>>

\* mutation: the series are labelled str(key) of the group key
HueLabelsAsKeys(hue, keys) == [i \in 1..Len(keys) |-> KeyLabel(hue, keys[i])]

\* the series of set_plot: the placeholder, one series per hue group with a
\* legend, or one series
\* label=str(key): the composite column's value for a list of columns, the
\* column's value for one column
HueLabels(hue, keys) ==
    [i \in 1..Len(keys) |->
        IF hue.kind = "list" THEN CompositeLabel(hue.cols, keys[i]) ELSE Str(keys[i][1])]

\* the loop over the groups with the given keys
PlotHueGroups(plot_df, a, fmt, keys) ==
    PlotGroups(plot_df, a.hue.cols, keys, HueLabels(a.hue, keys), 1, a.x, a.y,
               a.sem_column, a.sem_precomputed, fmt)

\* the axes with the series of the groups and ax.legend()
GroupsOnAxes(ax, res) ==
    [ax |-> Legend([ax EXCEPT !.elems = @ \o res.drawn]), warned |-> res.warned]

\* the axes with the one series of a plot without hue
SeriesOnAxes(ax, res) ==
    [ax |-> [ax EXCEPT !.elems = @ \o res.drawn], warned |-> IF res.warned THEN 1 ELSE 0]

DrawSeries(ax, plot_df, a, fmt) ==
    IF plot_df = <<>>
    THEN [ax |-> [ax EXCEPT !.elems = @ \o <<NoDataText>>], warned |-> 0]
    ELSE IF HueTruthy(a.hue)
    THEN GroupsOnAxes(ax, PlotHueGroups(plot_df, a, fmt, HueKeys(plot_df, a.hue.cols)))
    ELSE SeriesOnAxes(ax, PlotWithSem(plot_df, a.x, a.y, a.sem_column, a.sem_precomputed,
                                      fmt, None))

\* title, labels, minor locator, limits and reference lines of set_plot
Decorate(ax, a) ==
    LET ax1 == [ax EXCEPT !.title = IF a.title # None /\ a.title # "" THEN a.title ELSE @,
                          !.xlabel = a.x, !.ylabel = a.y, !.minor_locator = TRUE]
        ax2 == IF a.xlim.kind # "none"
               THEN [ax1 EXCEPT !.xview = FixedView(a.xlim.lo, a.xlim.hi)] ELSE ax1
        ax3 == IF a.ylim.kind # "none"
               THEN [ax2 EXCEPT !.yview = FixedView(a.ylim.lo, a.ylim.hi)] ELSE ax2
    IN  [ax3 EXCEPT !.elems = @ \o [i \in 1..Len(a.hlines) |-> HLine(a.hlines[i])]
                                \o [i \in 1..Len(a.vlines) |-> VLine(a.vlines[i])]]

\* PlotTile.set_plot: the tile afterwards and the number of warnings logged
\* plot_df: the dataframe with the filter applied if there is one
FilteredData(df, filter_query) ==
    IF FilterTruthy(filter_query) THEN ApplyFilter(Data(df), filter_query.items)
    ELSE Data(df)

\* the fields stored, and the figure once the series are drawn: decorated,
\* with the error markers last
Stored(a, fig, ser) ==
    [tile |-> [df |-> a.df, x |-> a.x, y |-> a.y, hue |-> a.hue,
               sem_column |-> a.sem_column, sem_precomputed |-> a.sem_precomputed,
               filter_query |-> a.filter_query,
               hlines |-> a.hlines, vlines |-> a.vlines,
               style_line |-> a.style_line, style_marker |-> a.style_marker,
               ylim |-> a.ylim, error_markers |-> a.error_markers,
               figure |-> [fig EXCEPT ![1] = RenderErrorMarkers(Decorate(ser.ax, a),
                                                                 a.error_markers)]],
     warned |-> ser.warned, raised |-> FALSE]

\* set_plot left by the KeyError of the filter: the fields are assigned
\* before the filter is applied, the figure is not reached
StoredOnly(t, a) ==
    [tile |-> [df |-> a.df, x |-> a.x, y |-> a.y, hue |-> a.hue,
               sem_column |-> a.sem_column, sem_precomputed |-> a.sem_precomputed,
               filter_query |-> a.filter_query,
               hlines |-> a.hlines, vlines |-> a.vlines,
               style_line |-> a.style_line, style_marker |-> a.style_marker,
               ylim |-> a.ylim, error_markers |-> a.error_markers,
               figure |-> t.figure],
     warned |-> 0, raised |-> TRUE]

\* set_plot drawing on the first axes of fig
SetPlotOn(fig, a) ==
    Stored(a, fig, DrawSeries(fig[1], FilteredData(a.df, a.filter_query), a,
                              GetPlotFormat(a.style_line, a.style_marker)))

SetPlot(t, a) ==
    IF FilterRaises(a.filter_query) THEN StoredOnly(t, a)
    ELSE SetPlotOn(ReuseOrCreateAxes(t.figure), a)

\* mutation: clear_plot without `self._error_markers = []`
ClearPlotKeepMarkers(t) == [FreshTile EXCEPT !.error_markers = t.error_markers]

\* PlotTile.clear_plot: the fields reset, figure.clear() removes every axes
ClearPlot(t) == FreshTile

\* self.figure.axes[0].get_title() or None
RenderedTitle(t) ==
    IF t.figure # <<>> /\ t.figure[1].title # "" THEN t.figure[1].title ELSE None

\* list(self._ylim) if self._ylim else None
ToList(ylim) == IF ylim.kind = "none" THEN NoneLimit ELSE ListLimit(ylim.lo, ylim.hi)

\* PlotTile.get_plot_data of a tile with a plot: the dictionary returned
GetPlotData(t, datasource_id) ==
    [datasource_id |-> datasource_id, x |-> t.x, y |-> t.y, hue |-> t.hue,
     sem_column |-> t.sem_column, sem_precomputed |-> t.sem_precomputed,
     filter_query |-> t.filter_query, hlines |-> t.hlines, vlines |-> t.vlines,
     style_line |-> t.style_line, style_marker |-> t.style_marker,
     ylim |-> ToList(t.ylim), title |-> RenderedTitle(t),
     error_markers |-> t.error_markers]

\* the arguments set_plot_from_data passes on: xlim=None, ylim as a tuple if
\* it is a two-element list
ArgsFromData(df, plot_data, ylim) ==
    [df |-> df, x |-> plot_data.x, y |-> plot_data.y, hue |-> plot_data.hue,
     sem_column |-> plot_data.sem_column, sem_precomputed |-> plot_data.sem_precomputed,
     title |-> plot_data.title, filter_query |-> plot_data.filter_query,
     xlim |-> NoneLimit, ylim |-> ylim,
     hlines |-> plot_data.hlines, vlines |-> plot_data.vlines,
     style_line |-> plot_data.style_line, style_marker |-> plot_data.style_marker,
     error_markers |-> plot_data.error_markers]

\* mutant of SetPlotFromData: ylim is passed on as the list it was saved as
SetPlotFromDataKeepList(t, df, plot_data) ==
    SetPlot(t, ArgsFromData(df, plot_data, plot_data.ylim))

\* PlotTile.set_plot_from_data
SetPlotFromData(t, df, plot_data) ==
    LET ylim == IF plot_data.ylim.kind = "list"
                THEN TupleLimit(plot_data.ylim.lo, plot_data.ylim.hi)
                ELSE plot_data.ylim
    IN  SetPlot(t, ArgsFromData(df, plot_data, ylim))

\* the series of _render_plot_to_ax: `if hue:` groups by the column or by the
\* list of columns and labels each series str(key); there is no placeholder
ExportHueGroups(plot_df, t, fmt, keys) ==
    PlotGroups(plot_df, t.hue.cols, keys, [i \in 1..Len(keys) |-> KeyLabel(t.hue, keys[i])],
               1, t.x, t.y, t.sem_column, t.sem_precomputed, fmt)

ExportSeries(ax, plot_df, t, fmt) ==
    IF HueTruthy(t.hue)
    THEN Legend([ax EXCEPT !.elems = @ \o
                    ExportHueGroups(plot_df, t, fmt, HueKeys(plot_df, t.hue.cols)).drawn])
    ELSE [ax EXCEPT !.elems = @ \o PlotWithSem(plot_df, t.x, t.y, t.sem_column,
                                               t.sem_precomputed, fmt, None).drawn]

\* title, labels, minor locator, y-limits and reference lines of the export
ExportDecorate(ax, t) ==
    LET ax2 == [ax EXCEPT !.title = IF RenderedTitle(t) # None THEN RenderedTitle(t) ELSE @,
                          !.xlabel = t.x, !.ylabel = t.y, !.minor_locator = TRUE]
        ax3 == IF t.ylim.kind # "none"
               THEN [ax2 EXCEPT !.yview = FixedView(t.ylim.lo, t.ylim.hi)] ELSE ax2
    IN  [ax3 EXCEPT !.elems = @ \o [i \in 1..Len(t.hlines) |-> HLine(t.hlines[i])]
                                \o [i \in 1..Len(t.vlines) |-> VLine(t.vlines[i])]]

\* export_service._render_plot_to_ax(tile, ax)
RenderPlotToAx(t, ax) ==
    IF t.df = None \/ FilterRaises(t.filter_query) THEN ax
    ELSE RenderErrorMarkersToAx(
             ExportDecorate(ExportSeries(ax, FilteredData(t.df, t.filter_query), t,
                                         GetPlotFormat(t.style_line, t.style_marker)), t),
             t.error_markers)

\* _render_plot_to_ax raises: the filter is applied before anything is drawn
RenderRaises(t) == t.df # None /\ FilterRaises(t.filter_query)

\* the first tile whose render raises, 0 if there is none
FirstRaising(tiles) ==
    IF \E i \in 1..Len(tiles) : RenderRaises(tiles[i])
    THEN CHOOSE i \in 1..Len(tiles) :
             RenderRaises(tiles[i]) /\ \A j \in 1..(i - 1) : ~RenderRaises(tiles[j])
    ELSE 0

\* the subplots drawn, and the file: fig.savefig comes after the loop and is
\* not reached when a render raises
ExportOutcome(drawn, raised) ==
    [raised |-> raised, axes |-> drawn, saved |-> IF raised THEN <<>> ELSE drawn]

\* export_grid over the tiles with a plot, in row-major order: a subplot is
\* added and rendered for each one up to the first whose render raises
ExportGridUpTo(tiles, first) ==
    ExportOutcome([i \in 1..(IF first = 0 THEN Len(tiles) ELSE first) |->
                      RenderPlotToAx(tiles[i], FreshAxes)],
                  first # 0)

ExportGrid(tiles) == ExportGridUpTo(tiles, FirstRaising(tiles))

\* ===================================================================
\* Specification Spec: one tile driven through set_plot, clear_plot, the
\* save/load round trip and the export renderer.
\* ===================================================================
\* the defaults of set_plot's parameters, on datasource ds1
BaseArgs ==
    [df |-> "ds1", x |-> "x", y |-> "y", hue |-> HueNone, sem_column |-> None,
     sem_precomputed |-> FALSE, title |-> None, filter_query |-> FilterNone,
     xlim |-> NoneLimit, ylim |-> NoneLimit, hlines |-> <<>>, vlines |-> <<>>,
     style_line |-> TRUE, style_marker |-> FALSE, error_markers |-> <<>>]

HueValues == {HueNone, HueStr("g"), HueList(<<"g">>), HueList(<<"g", "h">>), HueList(<<>>)}

\* no filter, a filter with rows, a filter without rows
FilterValues == {FilterNone, FilterDict(<< <<"g", R(1)>> >>), FilterDict(<< <<"g", R(3)>> >>)}

XLimValues == {NoneLimit, TupleLimit(Plain(R(0)), Plain(R(4)))}
YLimValues == {NoneLimit, TupleLimit(Plain(R(-1)), Plain(R(4)))}

MarkerA ==
    [x |-> R(1), y |-> NaN, xerr |-> R(1), yerr |-> NaN, marker |-> "o",
     color |-> "blue", label |-> "A"]
MarkerB ==
    [x |-> NaN, y |-> R(1), xerr |-> NaN, yerr |-> RDivInt(R(1), 2), marker |-> Absent,
     color |-> Absent, label |-> None]
MarkerC ==
    [x |-> R(2), y |-> NaN, xerr |-> R(1), yerr |-> NaN, marker |-> "v",
     color |-> "red", label |-> None]

\* both errors and an explicit y
MarkerD ==
    [x |-> R(1), y |-> R(2), xerr |-> R(1), yerr |-> R(1), marker |-> "s",
     color |-> Absent, label |-> "D"]
\* no error at all
MarkerE ==
    [x |-> R(3), y |-> R(3), xerr |-> NaN, yerr |-> NaN, marker |-> "o",
     color |-> "green", label |-> None]
\* a y-error with an explicit x
MarkerF ==
    [x |-> R(2), y |-> R(1), xerr |-> NaN, yerr |-> R(1), marker |-> Absent,
     color |-> "green", label |-> None]

\* aggregation modes: no SEM, computed SEM, pre-computed SEM
SemModes == {[col |-> None, pre |-> FALSE], [col |-> "s", pre |-> FALSE],
             [col |-> "s", pre |-> TRUE]}

\* reference lines and markers that come together
Overlays ==
    {[h |-> <<>>, v |-> <<>>, ms |-> <<>>],
     [h |-> <<R(1)>>, v |-> <<>>, ms |-> <<MarkerB>>],
     [h |-> <<R(1), R(2)>>, v |-> <<R(2)>>, ms |-> <<MarkerA, MarkerB, MarkerC>>],
     [h |-> <<>>, v |-> <<R(2)>>,
      ms |-> <<MarkerD, MarkerA, MarkerE, MarkerF, MarkerB, MarkerC>>]}

\* the calls of set_plot made: every hue and aggregation mode on ds1, filters
\* with and without rows, the second datasource, every decoration on one
\* data configuration, every style
DataArgs ==
    {[BaseArgs EXCEPT !.hue = hu, !.sem_column = m.col, !.sem_precomputed = m.pre] :
        hu \in HueValues, m \in SemModes}

FilterArgs ==
    {[BaseArgs EXCEPT !.hue = hu, !.sem_column = m.col, !.sem_precomputed = m.pre,
                      !.filter_query = f] :
        hu \in {HueNone, HueList(<<"g", "h">>)},
        m \in {[col |-> None, pre |-> TRUE], [col |-> "s", pre |-> TRUE]},
        f \in FilterValues \ {FilterNone}}

OtherSourceArgs ==
    {[BaseArgs EXCEPT !.df = "ds2", !.hue = hu, !.sem_column = "s",
                      !.sem_precomputed = TRUE, !.filter_query = FilterDict(<<>>)] :
        hu \in {HueNone, HueStr("h")}}

DecorArgs ==
    {[BaseArgs EXCEPT !.hue = HueList(<<"g">>), !.title = ti, !.xlim = xl, !.ylim = yl,
                      !.hlines = o.h, !.vlines = o.v, !.error_markers = o.ms] :
        ti \in {None, "T"}, xl \in XLimValues, yl \in YLimValues, o \in Overlays}

StyleArgs ==
    {[BaseArgs EXCEPT !.style_line = sl, !.style_marker = sm,
                      !.title = IF sl THEN "T" ELSE ""] :
        sl \in BOOLEAN, sm \in BOOLEAN}

\* a filter without rows together with every decoration
EmptyDecorArgs ==
    {[BaseArgs EXCEPT !.filter_query = FilterDict(<< <<"g", R(3)>> >>), !.title = "T",
                      !.xlim = TupleLimit(Plain(R(0)), Plain(R(4))),
                      !.ylim = TupleLimit(Plain(R(-1)), Plain(R(4))),
                      !.hlines = <<R(1)>>, !.vlines = <<R(2)>>,
                      !.error_markers = <<MarkerA, MarkerB, MarkerC>>]}

\* a filter on a column the dataframe does not have
MissingColumnArgs ==
    {[BaseArgs EXCEPT !.filter_query = FilterDict(<< <<"z", R(1)>> >>)]}

PlotArgs ==
    DataArgs \cup FilterArgs \cup OtherSourceArgs \cup DecorArgs \cup StyleArgs
        \cup EmptyDecorArgs \cup MissingColumnArgs

\* the tile next to the tile in the grid that is exported: the fields of a
\* tile that plotted the second datasource with the defaults (the export
\* does not read a tile's figure)
Companion == [FreshTile EXCEPT !.df = "ds2", !.x = "x", !.y = "y"]

Warnings(n) == [i \in 1..n |-> "warning"]

TileInit ==
    /\ tile = FreshTile
    /\ copy = FreshTile
    /\ exported = FreshAxes
    /\ saved = <<>>
    /\ held = [id \in {"ds1", "ds2"} |-> Frame(Data(id))]
    /\ tcall = [op |-> "init", args |-> BaseArgs, repeated |-> FALSE, cleared |-> FALSE]
    /\ tlog = <<>>

\* tile.set_plot(**a)
TileSetPlot ==
    \E a \in PlotArgs :
        \E res \in {SetPlot(tile, a)}, same \in {tcall.op # "init" /\ tcall.args = a} :
            /\ tile' = res.tile
            /\ tlog' = Warnings(res.warned)
            /\ tcall' = [op |-> IF res.raised THEN "set_plot_raised" ELSE "set_plot",
                         args |-> a, repeated |-> same,
                         cleared |-> same /\ tcall.op = "clear_plot"]
            /\ copy' = FreshTile
            /\ exported' = FreshAxes
            /\ saved' = <<>>
            /\ held' = [held EXCEPT ![a.df] = SetPlotFrame(@, a)]
            /\ TileFrame

\* tile.clear_plot()
TileClearPlot ==
    /\ tile' = ClearPlot(tile)
    /\ tlog' = <<>>
    /\ tcall' = [tcall EXCEPT !.op = "clear_plot", !.repeated = FALSE, !.cleared = FALSE]
    /\ copy' = FreshTile
    /\ exported' = FreshAxes
    /\ saved' = <<>>
    /\ UNCHANGED held
    /\ TileFrame

\* fresh = PlotTile(); fresh.set_plot_from_data(df, tile.get_plot_data(id))
\* (get_plot_data returns None for an empty tile)
TileRoundTrip ==
    /\ ~IsEmpty(tile)
    /\ \E res \in {SetPlotFromData(FreshTile, tile.df, GetPlotData(tile, tile.df))} :
           /\ copy' = res.tile
           /\ tlog' = Warnings(res.warned)
           /\ tcall' = [tcall EXCEPT !.op = IF res.raised THEN "round_trip_raised"
                                                           ELSE "round_trip",
                                     !.repeated = FALSE, !.cleared = FALSE]
    /\ exported' = FreshAxes
    /\ saved' = <<>>
    /\ held' = [held EXCEPT ![tile.df] = SetPlotFrame(@, tile)]
    /\ UNCHANGED tile
    /\ TileFrame

\* export_grid of a grid holding the tile, which has a plot, and next to it
\* the companion tile
TileExport ==
    /\ ~IsEmpty(tile)
    /\ \E res \in {ExportGrid(<<tile, Companion>>)} :
           /\ exported' = res.axes[1]
           /\ saved' = res.saved
           /\ tcall' = [tcall EXCEPT !.op = IF res.raised THEN "export_raised" ELSE "export",
                                     !.repeated = FALSE, !.cleared = FALSE]
           /\ held' = IF res.raised THEN [held EXCEPT ![tile.df] = ExportFrame(@, tile)]
                       ELSE [held EXCEPT ![tile.df] = ExportFrame(@, tile),
                                         ![Companion.df] = ExportFrame(@, Companion)]
    /\ tlog' = <<>>
    /\ copy' = FreshTile
    /\ UNCHANGED tile
    /\ TileFrame

TileNext == TileSetPlot \/ TileClearPlot \/ TileRoundTrip \/ TileExport




\* ------------------------------------------------ claims C1, C2, C3
\* C1: for every tile with a plot, the axes the export renderer draws from
\* the tile's retained state equals the tile's live axes: the same series,
\* grouping, legend labels, bands, placeholder, title, axis labels, axis
\* limits, reference lines and error markers (position, shape, colour, label).
C1_LiveExportEquivalent ==
    tcall.op = "export" => exported = tile.figure[1]

\* C2: after set_plot, however many times it was called with the same inputs
\* and with or without clear_plot in between, the tile's figure has exactly
\* one axes, the axes' content is that of a single rendering of those inputs
\* on a new tile, and its title is the one the inputs give.
C2_SetPlotIdempotent ==
    tcall.op = "set_plot" =>
        /\ Len(tile.figure) = 1
        /\ tile.figure = SetPlot(FreshTile, tcall.args).tile.figure
        /\ tile.figure[1].title =
               (IF tcall.args.title = None THEN "" ELSE tcall.args.title)

\* the same inputs were given at least twice, a clear_plot came in between,
\* and the plot has hue series, a title, limits, reference lines and markers
C2_Witness ==
    /\ tcall.op = "set_plot"
    /\ tcall.repeated
    /\ tcall.cleared
    /\ tcall.args.title = "T"
    /\ tcall.args.error_markers # <<>>
    /\ tile.figure[1].legend

\* C3: after get_plot_data on a tile with a plot and set_plot_from_data on a
\* new tile with the same dataframe, the new tile retains the same x, y, hue,
\* SEM column, SEM mode, filter, reference lines, y-limits, style flags and
\* error markers, and renders the same title.
C3_RoundTrip ==
    tcall.op = "round_trip" =>
        /\ copy.df = tile.df
        /\ copy.x = tile.x /\ copy.y = tile.y
        /\ copy.hue = tile.hue
        /\ copy.sem_column = tile.sem_column
        /\ copy.sem_precomputed = tile.sem_precomputed
        /\ copy.filter_query = tile.filter_query
        /\ copy.hlines = tile.hlines /\ copy.vlines = tile.vlines
        /\ copy.ylim = tile.ylim
        /\ copy.style_line = tile.style_line /\ copy.style_marker = tile.style_marker
        /\ copy.error_markers = tile.error_markers
        /\ Len(copy.figure) = 1
        /\ copy.figure[1].title = tile.figure[1].title

\* a round trip of a tile with a list hue, y-limits, a title, reference lines
\* and markers
C3_Witness ==
    /\ tcall.op = "round_trip"
    /\ tile.ylim.kind = "tuple"
    /\ tile.figure[1].title = "T"
    /\ tile.hlines # <<>>
    /\ tile.error_markers # <<>>
    /\ tile.hue.kind = "list"
    /\ copy.ylim.kind = "tuple"

\* ------------------------------------------------------- claim C13
\* the axes last rendered, live or for export, and the markers given to it
RenderedAxes == IF tcall.op = "export" THEN exported ELSE tile.figure[1]

\* the error bars on an axes, in drawing order
Bars(ax) == SelectSeq(ax.elems, LAMBDA e : e.kind = "errorbar")

\* the positions in the marker list of the markers with xerr, and of those
\* with yerr only
XBucket(ms) == {k \in 1..Len(ms) : ~IsNaN(ms[k].xerr)}
YBucket(ms) == {k \in 1..Len(ms) : IsNaN(ms[k].xerr) /\ ~IsNaN(ms[k].yerr)}

\* how many markers of the bucket come before marker k
Before(bucket, k) == Cardinality({j \in bucket : j < k})

\* the bar drawn for marker k: the x-error bars come first
BarOf(ax, ms, k) ==
    IF k \in XBucket(ms) THEN Bars(ax)[Before(XBucket(ms), k) + 1]
    ELSE Bars(ax)[Cardinality(XBucket(ms)) + Before(YBucket(ms), k) + 1]

\* coordinate c lies (5 + 8 i) percent of the view range inside the upper end
\* of the view: it is positioned on that view with index i, and where the
\* view is a fixed range of two numbers, 100 (hi - c) = (5 + 8 i) (hi - lo)
InsideTop(c, i, view) ==
    /\ ~c.given /\ c.i = i /\ c.view = view
    /\ (~view.auto /\ view.lo[2] = R(0) /\ view.hi[2] = R(0)) =>
           RMul(R(100), RSub(view.hi[1], c.v))
               = RMul(R(5 + 8 * i), RSub(view.hi[1], view.lo[1]))

\* coordinate c is the number v the marker gives
Verbatim(c, v) == c.given /\ c.v = v

\* every marker drawn has, on the axis it is stacked along, its explicit
\* coordinate or the position (5 + 8 i) percent inside the top or right edge,
\* i being the place idx(bucket, k) gives marker k
Positioned(ax, ms, idx(_, _)) ==
    /\ \A k \in XBucket(ms) :
           IF IsNaN(ms[k].y)
           THEN InsideTop(BarOf(ax, ms, k).pts[1].y, idx(XBucket(ms), k), ax.yview)
           ELSE Verbatim(BarOf(ax, ms, k).pts[1].y, ms[k].y)
    /\ \A k \in YBucket(ms) :
           IF IsNaN(ms[k].x)
           THEN InsideTop(BarOf(ax, ms, k).pts[1].x, idx(YBucket(ms), k), ax.xview)
           ELSE Verbatim(BarOf(ax, ms, k).pts[1].x, ms[k].x)

\* how many markers of the bucket without an explicit coordinate on the
\* stacking axis come before marker k
AutoBefore(ms, bucket, k) ==
    Cardinality({j \in bucket : j < k /\ IF bucket = XBucket(ms) THEN IsNaN(ms[j].y)
                                                                ELSE IsNaN(ms[j].x)})

\* the markers of the tile's last render
RenderedMarkers == tile.error_markers

\* C13 as stated: a marker with an explicit coordinate is drawn there; the
\* markers of one bucket without explicit coordinates are placed in input
\* order 5%, 13%, 21%, ... of the view range inside the top (x-error bucket)
\* or right (y-error bucket) edge, 8% apart.
C13_Original ==
    (tcall.op \in {"set_plot", "export"} /\ tile.df # None) =>
        Positioned(RenderedAxes, RenderedMarkers,
                   LAMBDA bucket, k : AutoBefore(RenderedMarkers, bucket, k))

\* C13 (amended): a marker with an explicit coordinate is drawn there; the
\* i-th marker of a bucket (0-indexed over all markers of the bucket, those
\* with explicit coordinates included) that has no explicit coordinate is
\* placed (5 + 8 i)% of the view range inside the top or right edge.  So the
\* markers without explicit coordinates are 8% apart starting at 5% only in
\* a bucket where no marker with an explicit coordinate comes before them.
C13_StackedByBucketIndex ==
    (tcall.op \in {"set_plot", "export"} /\ tile.df # None) =>
        Positioned(RenderedAxes, RenderedMarkers, Before)

\* a live render on fixed x and y ranges of six markers: the x-error bucket
\* holds a marker with an explicit y followed by two without, the y-error
\* bucket one with an explicit x followed by one without
C13_Witness ==
    /\ tcall.op = "set_plot"
    /\ tile.error_markers = <<MarkerD, MarkerA, MarkerE, MarkerF, MarkerB, MarkerC>>
    /\ ~tile.figure[1].xview.auto /\ ~tile.figure[1].yview.auto
    /\ Len(Bars(tile.figure[1])) = 5

\* ------------------------------------------------------- claim C14
\* the horizontal and the vertical error bars on an axes, in drawing order
XBars(ax) == SelectSeq(Bars(ax), LAMBDA e : ~IsNaN(e.pts[1].xerr))
YBars(ax) == SelectSeq(Bars(ax), LAMBDA e : IsNaN(e.pts[1].xerr))

\* the horizontal bars are the markers with xerr in list order, drawn with
\* their xerr and no yerr; the vertical bars are the markers with yerr and no
\* xerr in list order; nothing else is drawn as an error bar
Classified(ax, ms) ==
    /\ Len(XBars(ax)) = Cardinality(XBucket(ms))
    /\ Len(YBars(ax)) = Cardinality(YBucket(ms))
    /\ \A k \in XBucket(ms) :
           LET bar == XBars(ax)[Before(XBucket(ms), k) + 1]
           IN  /\ bar.pts[1].xerr = ms[k].xerr /\ IsNaN(bar.pts[1].yerr)
               /\ Verbatim(bar.pts[1].x, ms[k].x) /\ bar.label = ms[k].label
    /\ \A k \in YBucket(ms) :
           LET bar == YBars(ax)[Before(YBucket(ms), k) + 1]
           IN  /\ bar.pts[1].yerr = ms[k].yerr
               /\ Verbatim(bar.pts[1].y, ms[k].y) /\ bar.label = ms[k].label

\* C14: both renderers classify a marker by xerr first: one with xerr is
\* drawn as a horizontal error bar whatever its yerr, one with yerr only as a
\* vertical error bar, one with neither is not drawn and the render
\* completes; each bucket keeps the order of the marker list.
C14_ClassifiedByXerr ==
    (tcall.op \in {"set_plot", "export"} /\ tile.df # None) =>
        Classified(RenderedAxes, RenderedMarkers)

\* an export of a tile whose markers include one with both errors, one with
\* neither and two with yerr only: three horizontal and two vertical bars
C14_Witness ==
    /\ tcall.op = "export"
    /\ \E k \in 1..Len(tile.error_markers) :
           ~IsNaN(tile.error_markers[k].xerr) /\ ~IsNaN(tile.error_markers[k].yerr)
    /\ \E k \in 1..Len(tile.error_markers) :
           IsNaN(tile.error_markers[k].xerr) /\ IsNaN(tile.error_markers[k].yerr)
    /\ Len(XBars(exported)) = 3 /\ Len(YBars(exported)) = 2

\* ------------------------------------------------------- claim C15
\* the bar of every marker drawn has the marker's shape token as its format,
\* 'v' if the marker has none, and the marker's colour if it has one
ShapedAndColoured(ax, ms) ==
    \A k \in XBucket(ms) \union YBucket(ms) :
        /\ BarOf(ax, ms, k).fmt = IF ms[k].marker = Absent THEN "v" ELSE ms[k].marker
        /\ ms[k].color # Absent => BarOf(ax, ms, k).pts[1].color = ms[k].color

\* C15: in the live tile renderer and in the export renderer every error
\* marker is drawn with its configured shape token and colour, and with the
\* down-triangle 'v' when it has no shape token.
C15_ShapeAndColour ==
    (tcall.op \in {"set_plot", "export"} /\ tile.df # None) =>
        ShapedAndColoured(RenderedAxes, RenderedMarkers)

\* C15 restricted to what the code does: the export renderer draws shape and
\* colour as configured; the live renderer draws the configured colour
C15_ExportShapeLiveColour ==
    /\ tcall.op = "export" => ShapedAndColoured(exported, tile.error_markers)
    /\ (tcall.op = "set_plot" /\ tile.df # None) =>
           \A k \in XBucket(tile.error_markers) \union YBucket(tile.error_markers) :
               /\ BarOf(tile.figure[1], tile.error_markers, k).fmt = "v"
               /\ tile.error_markers[k].color # Absent =>
                      BarOf(tile.figure[1], tile.error_markers, k).pts[1].color
                          = tile.error_markers[k].color

\* ------------------------------------------------------- claim C16
\* the grouping key of one row: "<col>=<value>" of each hue column joined
\* with ", " for a list of columns, the column's value for one column name
RowLabel(r, hue) ==
    IF hue.kind = "list"
    THEN Join([j \in 1..Len(hue.cols) |-> hue.cols[j] \o "=" \o Str(r[hue.cols[j]])], ", ")
    ELSE Str(r[hue.cols[1]])

RowLabels(df, hue) == {RowLabel(df[i], hue) : i \in 1..Len(df)}

\* the lines on an axes, in drawing order
Lines(ax) == SelectSeq(ax.elems, LAMBDA e : e.kind = "line")

\* the rows the last set_plot drew from
PlottedRows == FilteredData(tcall.args.df, tcall.args.filter_query)

\* what one series of the last set_plot draws from the rows df under a label
SeriesOf(df, label) ==
    PlotWithSem(df, tcall.args.x, tcall.args.y, tcall.args.sem_column,
                tcall.args.sem_precomputed,
                GetPlotFormat(tcall.args.style_line, tcall.args.style_marker), label).drawn

\* C16: set_plot on rows that pass the filter draws, for a list of one or
\* more hue columns, one series per distinct composite label
\* "<col>=<value>, ..." (columns in the given order), each from the rows with
\* that label, and a legend of these labels; for one column name, one series
\* per value of the column and a legend; for an empty list or None, one
\* unlabelled series of all rows and no legend.
C16_HueResolution ==
    (tcall.op = "set_plot" /\ PlottedRows # <<>>) =>
        LET ax == tile.figure[1]
            hue == tcall.args.hue
        IN  IF (hue.kind = "list" /\ Len(hue.cols) >= 1) \/ hue.kind = "str"
            THEN /\ Len(Lines(ax)) = Cardinality(RowLabels(PlottedRows, hue))
                 /\ \A i \in 1..Len(Lines(ax)) :
                        /\ Lines(ax)[i].label \in RowLabels(PlottedRows, hue)
                        /\ Lines(ax)[i] =
                               SeriesOf(SelectSeq(PlottedRows,
                                                  LAMBDA r : RowLabel(r, hue) = Lines(ax)[i].label),
                                        Lines(ax)[i].label)[1]
                 /\ {Lines(ax)[i].label : i \in 1..Len(Lines(ax))} = RowLabels(PlottedRows, hue)
                 /\ ax.legend
                 /\ {ax.legend_labels[i] : i \in 1..Len(ax.legend_labels)}
                        = RowLabels(PlottedRows, hue)
            ELSE /\ Lines(ax) = <<SeriesOf(PlottedRows, None)[1]>>
                 /\ ~ax.legend /\ ax.legend_labels = <<>>

\* set_plot with hue ["g", "h"] on the first datasource: four series, one of
\* them labelled "g=1, h=2", and a legend
C16_Witness ==
    /\ tcall.op = "set_plot"
    /\ tcall.args.hue = HueList(<<"g", "h">>)
    /\ tile.figure # <<>>
    /\ Len(Lines(tile.figure[1])) = 4
    /\ \E i \in 1..4 : Lines(tile.figure[1])[i].label = "g=1, h=2"
    /\ tile.figure[1].legend

\* set_plot with an empty hue list: one unlabelled series, no legend
C16_WitnessEmptyList ==
    /\ tcall.op = "set_plot"
    /\ tcall.args.hue = HueList(<<>>)
    /\ tile.figure # <<>>
    /\ Len(Lines(tile.figure[1])) = 1
    /\ ~tile.figure[1].legend

\* ------------------------------------------------------- claim C17
\* C17: when no row passes the filter, set_plot draws the "No data"
\* placeholder and nothing else: no series, no legend, no title, no axis
\* labels or limits, no tick decoration, no reference lines, no error markers.
C17_EmptySkipsDecoration ==
    (tcall.op = "set_plot" /\ PlottedRows = <<>>) =>
        tile.figure = <<[FreshAxes EXCEPT !.elems = <<NoDataText>>]>>

\* what the code does when no row passes the filter: the placeholder comes
\* first, no series and no legend are drawn, and the decoration of the call
\* (title, labels, limits, minor ticks, reference lines, error markers) is
\* applied as for a plot with rows
C17_PlaceholderThenDecoration ==
    (tcall.op = "set_plot" /\ PlottedRows = <<>>) =>
        /\ tile.figure[1].elems[1] = NoDataText
        /\ Lines(tile.figure[1]) = <<>> /\ ~tile.figure[1].legend
        /\ tile.figure[1].minor_locator
        /\ tile.figure[1].xlabel = tcall.args.x /\ tile.figure[1].ylabel = tcall.args.y
        /\ tcall.args.title = "T" => tile.figure[1].title = "T"
        /\ tcall.args.ylim.kind # "none" => ~tile.figure[1].yview.auto
        /\ Len(SelectSeq(tile.figure[1].elems, LAMBDA e : e.kind \in {"hline", "vline"}))
              = Len(tcall.args.hlines) + Len(tcall.args.vlines)
        /\ Len(Bars(tile.figure[1])) = Cardinality(XBucket(tcall.args.error_markers))
                                         + Cardinality(YBucket(tcall.args.error_markers))

\* ------------------------------------------------------- claim C18
\* the filter has a key that is not a column of the dataframe
NamesMissingColumn(fq) ==
    ~fq.none /\ \E j \in 1..Len(fq.items) : fq.items[j][1] \notin Columns

\* C18: set_plot with a filter naming a column the dataframe does not have
\* returns and shows the "No data" placeholder; export_grid of a grid with
\* such a tile returns and writes the file with the other tile's subplot.
C18_MissingColumnGivesEmptyPlot ==
    /\ (tcall.op \in {"set_plot", "set_plot_raised"}
           /\ NamesMissingColumn(tcall.args.filter_query)) =>
           /\ tcall.op = "set_plot"
           /\ tile.figure # <<>>
           /\ \E i \in 1..Len(tile.figure[1].elems) :
                  tile.figure[1].elems[i].kind = "text"
    /\ (tcall.op \in {"export", "export_raised"}
           /\ NamesMissingColumn(tile.filter_query)) =>
           /\ tcall.op = "export"
           /\ RenderPlotToAx(Companion, FreshAxes) \in Range(saved)

\* what the code does with such a filter: set_plot raises after it has
\* stored its arguments, so that the tile is not empty; export_grid raises
\* before it saves, and no tile is exported
C18_MissingColumnRaises ==
    /\ (tcall.op \in {"set_plot", "set_plot_raised"}
           /\ NamesMissingColumn(tcall.args.filter_query)) =>
           /\ tcall.op = "set_plot_raised"
           /\ tile.df = tcall.args.df /\ tile.filter_query = tcall.args.filter_query
    /\ (tcall.op \in {"export", "export_raised"}
           /\ NamesMissingColumn(tile.filter_query)) =>
           /\ tcall.op = "export_raised"
           /\ saved = <<>>
    /\ (tcall.op = "export" /\ ~NamesMissingColumn(tile.filter_query)) =>
           saved = <<exported, RenderPlotToAx(Companion, FreshAxes)>>

C19_LimitsKeepFrames ==
    /\ lcall.fn = "shared_limits" =>
           lheld = [i \in 1..Len(lfilters) |-> Frame(ApplyFilter(ldf, lfilters[i]))]
    /\ lcall.fn = "shared_limits_with_sem" => lheld = <<Frame(ldf)>>

C20_ClearResetsFields ==
    tcall.op = "clear_plot" =>
        /\ IsEmpty(tile)
        /\ tile.df = None /\ tile.x = None /\ tile.y = None
        /\ tile.hue.kind = "none"
        /\ tile.sem_column = None /\ ~tile.sem_precomputed
        /\ tile.filter_query.none
        /\ tile.ylim.kind = "none"
        /\ tile.hlines = <<>> /\ tile.vlines = <<>> /\ tile.error_markers = <<>>
        /\ tile.style_line /\ ~tile.style_marker
        /\ tile.figure = <<>>
        /\ DOMAIN tile = DOMAIN FreshTile

\* clear_plot of a tile whose last set_plot gave a hue list, y-limits,
\* reference lines and error markers
C20_Witness ==
    /\ tcall.op = "clear_plot"
    /\ tcall.args.hue.kind = "list"
    /\ tcall.args.ylim.kind # "none"
    /\ tcall.args.hlines # <<>> /\ tcall.args.vlines # <<>>
    /\ tcall.args.error_markers # <<>>

\* clear_plot of a tile whose last set_plot drew markers only
C20_WitnessStyle ==
    /\ tcall.op = "clear_plot"
    /\ ~tcall.args.style_line /\ tcall.args.style_marker
    /\ tile.style_line /\ ~tile.style_marker


\* ===================================================================
\* GridBoard (ui/grid_board.py) and MainWindow (ui/main_window.py)
\* ===================================================================
\* an item of the QGridLayout: a tile with its cell and span
Item(t, r, c, rs, cs) == [tile |-> t, row |-> r, col |-> c, rowspan |-> rs, colspan |-> cs]

\* the coordinates <<r, c>> of a rows x cols grid, row by row
Coords(rows, cols) == [k \in 1..(rows * cols) |-> <<(k - 1) \div cols, (k - 1) % cols>>]

\* GridBoard.__init__ with _populate: one empty tile per cell
GridBoard(rows, cols) ==
    [rows |-> rows, cols |-> cols,
     items |-> [k \in 1..(rows * cols) |->
                   Item(FreshTile, Coords(rows, cols)[k][1], Coords(rows, cols)[k][2], 1, 1)]]

\* QGridLayout.itemAtPosition(r, c): the index of the first item whose span
\* covers the cell, 0 if there is none
ItemAtPosition(b, r, c) ==
    LET hits == {k \in 1..Len(b.items) :
                    /\ b.items[k].row <= r /\ r < b.items[k].row + b.items[k].rowspan
                    /\ b.items[k].col <= c /\ c < b.items[k].col + b.items[k].colspan}
    IN  IF hits = {} THEN 0 ELSE CHOOSE k \in hits : \A j \in hits : k <= j

\* GridBoard.add_row
AddRow(b) ==
    [b EXCEPT !.items = @ \o [c \in 1..b.cols |-> Item(FreshTile, b.rows, c - 1, 1, 1)],
              !.rows = @ + 1]

\* GridBoard.add_col
AddCol(b) ==
    [b EXCEPT !.items = @ \o [r \in 1..b.rows |-> Item(FreshTile, r - 1, b.cols, 1, 1)],
              !.cols = @ + 1]

\* GridBoard.first_empty_coord: the first cell, row by row, that holds an
\* empty tile; the scan calls .widget() on itemAtPosition's result and so
\* raises at a cell no item covers
FirstEmptyCoord(b) ==
    LET cs    == Coords(b.rows, b.cols)
        stops == {k \in 1..Len(cs) :
                     LET i == ItemAtPosition(b, cs[k][1], cs[k][2])
                     IN  i = 0 \/ IsEmpty(b.items[i].tile)}
        k0    == CHOOSE k \in stops : \A j \in stops : k <= j
    IN  IF stops = {} THEN [raised |-> FALSE, found |-> FALSE, r |-> 0, c |-> 0]
        ELSE IF ItemAtPosition(b, cs[k0][1], cs[k0][2]) = 0
        THEN [raised |-> TRUE, found |-> FALSE, r |-> cs[k0][1], c |-> cs[k0][2]]
        ELSE [raised |-> FALSE, found |-> TRUE, r |-> cs[k0][1], c |-> cs[k0][2]]

\* a message box shown to the user
NoDialog == [kind |-> "none", title |-> "", text |-> ""]
MessageBox(kind, title, text) == [kind |-> kind, title |-> title, text |-> text]

\* str(e) of the ValueError of expand_groups
TooManyText == "Too many combinations (>50). Reduce groups or categories."

\* the selection of the quick-plot dialog
Selection(id, groups) ==
    [datasource_id |-> id, x |-> "x", y |-> "y", hue |-> HueNone, sem_column |-> None,
     sem_precomputed |-> FALSE, groups |-> groups, hlines |-> <<>>, vlines |-> <<>>,
     style_line |-> TRUE, style_marker |-> FALSE]

\* (xlim, ylim) of the quick plot: None unless there are several filters
Computed(lim) ==
    [computed |-> TRUE, raised |-> lim.raised,
     xlim |-> TupleLimit(lim.x[1], lim.x[2]), ylim |-> TupleLimit(lim.y[1], lim.y[2])]

\* subsets = [df filtered by fq for fq in filter_queries]
Subsets(df, fqs) == [i \in 1..Len(fqs) |-> ApplyFilter(df, fqs[i])]

QuickPlotLimits(sel, fqs) ==
    IF Len(fqs) > 1
    THEN Computed(IF sel.sem_column # None
                  THEN SharedLimitsWithSem(Data(sel.datasource_id), fqs, sel.x, sel.y,
                                           sel.sem_column, sel.hue, sel.sem_precomputed)
                  ELSE Returned(SharedLimits(Subsets(Data(sel.datasource_id), fqs),
                                             sel.x, sel.y)))
    ELSE [computed |-> FALSE, raised |-> FALSE, xlim |-> NoneLimit, ylim |-> NoneLimit]

\* the arguments of the set_plot call for one filter
QuickPlotArgs(sel, fq, lims) ==
    [df |-> sel.datasource_id, x |-> sel.x, y |-> sel.y, hue |-> sel.hue,
     sem_column |-> sel.sem_column, sem_precomputed |-> sel.sem_precomputed,
     title |-> IF fq # <<>>
               THEN Join([i \in 1..Len(fq) |-> fq[i][1] \o "=" \o Str(fq[i][2])], ", ")
               ELSE None,
     filter_query |-> FilterDict(fq), xlim |-> lims.xlim, ylim |-> lims.ylim,
     hlines |-> sel.hlines, vlines |-> sel.vlines,
     style_line |-> sel.style_line, style_marker |-> sel.style_marker,
     error_markers |-> <<>>]

RECURSIVE PlacePlots(_, _, _, _, _)
\* the placement loop: each filter's plot goes to the first empty tile, or to
\* the first tile of a row added for it
PlacePlots(b, sel, fqs, lims, i) ==
    IF i > Len(fqs) THEN [board |-> b, raised |-> FALSE]
    ELSE LET coord == FirstEmptyCoord(b)
             b1    == IF coord.found THEN b ELSE AddRow(b)
             r     == IF coord.found THEN coord.r ELSE b1.rows - 1
             c     == IF coord.found THEN coord.c ELSE 0
             k     == ItemAtPosition(b1, r, c)
             t     == SetPlot(b1.items[k].tile, QuickPlotArgs(sel, fqs[i], lims)).tile
         IN  IF coord.raised THEN [board |-> b, raised |-> TRUE]
             ELSE PlacePlots([b1 EXCEPT !.items[k].tile = t], sel, fqs, lims, i + 1)

\* mutant of QuickPlot: after the warning the action goes on with one
\* unfiltered plot
QuickPlotGoesOn(b, sel) ==
    LET exp  == ExpandGroups(Data(sel.datasource_id), sel.groups)
        fqs  == IF exp.raised THEN << <<>> >> ELSE exp.combos
        lims == QuickPlotLimits(sel, fqs)
        res  == PlacePlots(b, sel, fqs, lims, 1)
    IN  [board |-> res.board,
         dialog |-> IF exp.raised
                    THEN MessageBox("warning", "Too Many Combinations", TooManyText)
                    ELSE NoDialog,
         limits |-> lims.computed, raised |-> lims.raised \/ res.raised]

\* MainWindow._action_quick_plot on an accepted selection: the board and the
\* message box afterwards, whether shared limits were computed, and whether
\* an exception left the action
\* the action after the placement loop
Placed(lims, res) ==
    [board |-> res.board, dialog |-> NoDialog, limits |-> lims.computed,
     raised |-> res.raised]

\* the action from the limit computation on: an exception there leaves it
QuickPlotWith(b, sel, fqs, lims) ==
    IF lims.raised
    THEN [board |-> b, dialog |-> NoDialog, limits |-> TRUE, raised |-> TRUE]
    ELSE Placed(lims, PlacePlots(b, sel, fqs, lims, 1))

\* the action after expand_groups: the warning and return on its ValueError
QuickPlotOf(b, sel, exp) ==
    IF exp.raised
    THEN [board |-> b,
          dialog |-> MessageBox("warning", "Too Many Combinations", TooManyText),
          limits |-> FALSE, raised |-> FALSE]
    ELSE QuickPlotWith(b, sel, exp.combos, QuickPlotLimits(sel, exp.combos))

QuickPlot(b, sel) == QuickPlotOf(b, sel, ExpandGroups(Data(sel.datasource_id), sel.groups))

\* ===================================================================
\* Specification SpecBoard: the main window's grid driven by Add CSV, Quick
\* Plot, Add Row and Add Column.
\* ===================================================================
\* the CSV files the user has
BoardSources == {"ds2", "ds3"}

\* the selections the dialog returns: one plot, two plots, eight plots, and
\* 56 combinations
BoardSelections ==
    {Selection("ds2", <<>>), Selection("ds2", <<"g">>), Selection("ds3", <<"g">>),
     Selection("ds3", <<"g", "h">>)}

NoBoardCall ==
    [op |-> "init", sel |-> Selection("ds2", <<>>), limits |-> FALSE, raised |-> FALSE]

\* MainWindow.__init__: GridBoard(rows=2, cols=3), no datasource
BoardInit ==
    /\ board = GridBoard(2, 3)
    /\ datasources = {}
    /\ dialog = NoDialog
    /\ bcall = NoBoardCall

\* Data > Add CSV with a file that loads
BoardAddCsv ==
    \E id \in BoardSources \ datasources :
        /\ datasources' = datasources \cup {id}
        /\ dialog' = NoDialog
        /\ bcall' = [NoBoardCall EXCEPT !.op = "add_csv"]
        /\ UNCHANGED board
        /\ BoardFrame

\* Plot > Quick Plot without a datasource
BoardQuickPlotNoData ==
    /\ datasources = {}
    /\ dialog' = MessageBox("information", "Quick Plot", "Please add a CSV first.")
    /\ bcall' = [NoBoardCall EXCEPT !.op = "quick_plot"]
    /\ UNCHANGED <<board, datasources>>
    /\ BoardFrame

\* Plot > Quick Plot with the dialog accepted
BoardQuickPlot ==
    \E sel \in BoardSelections :
        /\ sel.datasource_id \in datasources
        /\ \E res \in {QuickPlot(board, sel)} :
               /\ res.board.rows * res.board.cols <= MaxCells
               /\ board' = res.board
               /\ dialog' = res.dialog
               /\ bcall' = [op |-> "quick_plot", sel |-> sel, limits |-> res.limits,
                            raised |-> res.raised]
        /\ UNCHANGED datasources
        /\ BoardFrame

\* Grid > Add Row
BoardAddRow ==
    /\ (board.rows + 1) * board.cols <= MaxCells
    /\ board' = AddRow(board)
    /\ dialog' = NoDialog
    /\ bcall' = [NoBoardCall EXCEPT !.op = "add_row"]
    /\ UNCHANGED datasources
    /\ BoardFrame

\* Grid > Add Column
BoardAddCol ==
    /\ board.rows * (board.cols + 1) <= MaxCells
    /\ board' = AddCol(board)
    /\ dialog' = NoDialog
    /\ bcall' = [NoBoardCall EXCEPT !.op = "add_col"]
    /\ UNCHANGED datasources
    /\ BoardFrame

BoardNext ==
    BoardAddCsv \/ BoardQuickPlotNoData \/ BoardQuickPlot \/ BoardAddRow \/ BoardAddCol

\* ------------------------------------------------------- claim C8
\* the tiles of the board that hold a plot
PlotCount(b) == Cardinality({k \in 1..Len(b.items) : ~IsEmpty(b.items[k].tile)})

\* C8: when the quick-plot selection has more than 50 group combinations, the
\* action shows the limit error's message to the user and does nothing else:
\* the grid keeps its rows, columns and tiles as they were, and no shared
\* limits are computed.
C8_QuickPlotLimitError ==
    [][(/\ bcall'.op = "quick_plot"
        /\ datasources # {}
        /\ ProductSize(Data(bcall'.sel.datasource_id), bcall'.sel.groups) > 50)
       => /\ board' = board
          /\ dialog' = MessageBox("warning", "Too Many Combinations", TooManyText)
          /\ ~bcall'.limits
          /\ ~bcall'.raised]_vars

\* the limit error was shown on a board whose tiles all hold plots, where a
\* further plot would have needed a new row
C8_Witness ==
    /\ bcall.op = "quick_plot"
    /\ dialog.title = "Too Many Combinations"
    /\ ProductSize(Data(bcall.sel.datasource_id), bcall.sel.groups) > 50
    /\ PlotCount(board) = board.rows * board.cols


\* ===================================================================
\* GridBoard's layout operations, GridBoard.serialize_layout and
\* export_service.export_grid
\* ===================================================================
\* QGridLayout.removeWidget: the item leaves the layout's list
RemoveItem(items, k) == SubSeq(items, 1, k - 1) \o SubSeq(items, k + 1, Len(items))

\* the cells <<r, c>> of a region, row by row
Region(row, col, rowspan, colspan) ==
    [k \in 1..(rowspan * colspan) |-> <<row + ((k - 1) \div colspan), col + ((k - 1) % colspan)>>]

RECURSIVE RemoveCells(_, _, _)
\* for each cell from the i-th on: the widget itemAtPosition finds there, if
\* any, is removed from the layout
RemoveCells(b, cells, i) ==
    IF i > Len(cells) THEN b
    ELSE IF ItemAtPosition(b, cells[i][1], cells[i][2]) = 0
    THEN RemoveCells(b, cells, i + 1)
    ELSE RemoveCells([b EXCEPT !.items = RemoveItem(@, ItemAtPosition(b, cells[i][1],
                                                                     cells[i][2]))],
                     cells, i + 1)

\* removeWidget(widget); addWidget(widget, r, c): the item found is taken out
\* and the widget is added as a one-cell item at the end of the list
Replaced(b, k, r, c) ==
    [b EXCEPT !.items = RemoveItem(@, k) \o <<Item(b.items[k].tile, r, c, 1, 1)>>]

RECURSIVE ShiftCells(_, _, _, _, _)
\* for each cell from the i-th on: the widget found there, if any, is moved
\* dr rows up and dc columns left
ShiftCells(b, cells, i, dr, dc) ==
    IF i > Len(cells) THEN b
    ELSE IF ItemAtPosition(b, cells[i][1], cells[i][2]) = 0
    THEN ShiftCells(b, cells, i + 1, dr, dc)
    ELSE ShiftCells(Replaced(b, ItemAtPosition(b, cells[i][1], cells[i][2]),
                             cells[i][1] - dr, cells[i][2] - dc),
                    cells, i + 1, dr, dc)

\* a cell of the region shows a tile with a plot
HasPlot(b, cells) ==
    \E i \in 1..Len(cells) :
        /\ ItemAtPosition(b, cells[i][1], cells[i][2]) # 0
        /\ ~IsEmpty(b.items[ItemAtPosition(b, cells[i][1], cells[i][2])].tile)

\* remove_row without the test for plots in the row
RemoveRowUnchecked(b, row) ==
    IF row < 0 \/ row >= b.rows THEN [ok |-> FALSE, board |-> b]
    ELSE [ok |-> TRUE,
          board |-> [ShiftCells(RemoveCells(b, Region(row, 0, 1, b.cols), 1),
                                Region(row + 1, 0, b.rows - row - 1, b.cols), 1, 1, 0)
                        EXCEPT !.rows = @ - 1]]

\* GridBoard.remove_row: what it returns and the board afterwards
RemoveRow(b, row) ==
    IF row < 0 \/ row >= b.rows THEN [ok |-> FALSE, board |-> b]
    ELSE IF HasPlot(b, Region(row, 0, 1, b.cols)) THEN [ok |-> FALSE, board |-> b]
    ELSE [ok |-> TRUE,
          board |-> [ShiftCells(RemoveCells(b, Region(row, 0, 1, b.cols), 1),
                                Region(row + 1, 0, b.rows - row - 1, b.cols), 1, 1, 0)
                        EXCEPT !.rows = @ - 1]]

\* the cells right of column col, column by column
ColumnsAfter(b, col) ==
    [k \in 1..((b.cols - col - 1) * b.rows) |->
        <<(k - 1) % b.rows, col + 1 + ((k - 1) \div b.rows)>>]

\* GridBoard.remove_col
RemoveCol(b, col) ==
    IF col < 0 \/ col >= b.cols THEN [ok |-> FALSE, board |-> b]
    ELSE IF HasPlot(b, Region(0, col, b.rows, 1)) THEN [ok |-> FALSE, board |-> b]
    ELSE [ok |-> TRUE,
          board |-> [ShiftCells(RemoveCells(b, Region(0, col, b.rows, 1), 1),
                                ColumnsAfter(b, col), 1, 0, 1)
                        EXCEPT !.cols = @ - 1]]

RECURSIVE Fitted(_, _, _)
\* while to_row + rowspan > rows: add_row(); while to_col + colspan > cols:
\* add_col()
Fitted(b, rows, cols) ==
    IF rows > b.rows THEN Fitted(AddRow(b), rows, cols)
    ELSE IF cols > b.cols THEN Fitted(AddCol(b), rows, cols)
    ELSE b

RECURSIVE ClearEmpty(_, _, _)
\* the empty tiles shown in the target cells after the main cell are removed
ClearEmpty(b, cells, i) ==
    IF i > Len(cells) THEN b
    ELSE IF /\ ItemAtPosition(b, cells[i][1], cells[i][2]) # 0
            /\ IsEmpty(b.items[ItemAtPosition(b, cells[i][1], cells[i][2])].tile)
    THEN ClearEmpty([b EXCEPT !.items = RemoveItem(@, ItemAtPosition(b, cells[i][1],
                                                                    cells[i][2]))],
                    cells, i + 1)
    ELSE ClearEmpty(b, cells, i + 1)

\* move_plot once the grid fits and the source tile t was found as item k
MoveItem(b, k, t, to_row, to_col, rowspan, colspan) ==
    [ClearEmpty([b EXCEPT !.items = RemoveItem(@, k)],
                Region(to_row, to_col, rowspan, colspan), 2)
        EXCEPT !.items = @ \o <<Item(t, to_row, to_col, rowspan, colspan)>>]

\* move_plot on the fitted grid
MoveOn(b, from_row, from_col, to_row, to_col, rowspan, colspan) ==
    IF ItemAtPosition(b, from_row, from_col) = 0 THEN b
    ELSE MoveItem(b, ItemAtPosition(b, from_row, from_col),
                  b.items[ItemAtPosition(b, from_row, from_col)].tile,
                  to_row, to_col, rowspan, colspan)

\* GridBoard.move_plot
MovePlot(b, from_row, from_col, to_row, to_col, rowspan, colspan) ==
    MoveOn(Fitted(b, to_row + rowspan, to_col + colspan),
           from_row, from_col, to_row, to_col, rowspan, colspan)

NotFound == [found |-> FALSE, row |-> 0, col |-> 0, rowspan |-> 0, colspan |-> 0]

\* GridBoard.find_tile_position of the widget of item k: found if some cell of
\* the grid shows it, and then the item's position from the layout
FindTilePosition(b, k) ==
    IF \E r \in 0..(b.rows - 1), c \in 0..(b.cols - 1) : ItemAtPosition(b, r, c) = k
    THEN [found |-> TRUE, row |-> b.items[k].row, col |-> b.items[k].col,
          rowspan |-> b.items[k].rowspan, colspan |-> b.items[k].colspan]
    ELSE NotFound

\* f"{rowspan}×{colspan} span"
SpanText(pos) == ToString(pos.rowspan) \o "×" \o ToString(pos.colspan) \o " span"

MismatchText(pos1, pos2) ==
    "Cannot swap: Span mismatch.\n\nSource: " \o SpanText(pos1) \o "\nTarget: "
        \o SpanText(pos2) \o "\n\nPlease make both plots 1×1 first, then swap."

\* the two widgets taken out of the layout (one, if they are the same widget)
WithoutBoth(items, k1, k2) ==
    IF k1 = k2 THEN RemoveItem(items, k1)
    ELSE IF k1 < k2 THEN RemoveItem(RemoveItem(items, k2), k1)
    ELSE RemoveItem(RemoveItem(items, k1), k2)

\* the widgets added back swapped; adding a widget that is in the layout
\* moves it, so that a widget swapped with itself is there once
Swapped(b, k1, k2, pos1, pos2) ==
    [b EXCEPT !.items =
        WithoutBoth(@, k1, k2)
            \o (IF k1 = k2 THEN <<>>
                ELSE <<Item(b.items[k1].tile, pos2.row, pos2.col, pos2.rowspan,
                            pos2.colspan)>>)
            \o <<Item(b.items[k2].tile, pos1.row, pos1.col, pos1.rowspan, pos1.colspan)>>]

\* swap_plots without the comparison of the spans
SwapAtAnySpan(b, k1, k2, pos1, pos2) ==
    IF ~pos1.found \/ ~pos2.found
    THEN [ok |-> FALSE, message |-> "Could not find plot positions", board |-> b]
    ELSE [ok |-> TRUE, message |-> "Plots swapped successfully",
          board |-> Swapped(b, k1, k2, pos1, pos2)]

\* swap_plots once the positions are looked up
SwapAt(b, k1, k2, pos1, pos2) ==
    IF ~pos1.found \/ ~pos2.found
    THEN [ok |-> FALSE, message |-> "Could not find plot positions", board |-> b]
    ELSE IF pos1.rowspan # pos2.rowspan \/ pos1.colspan # pos2.colspan
    THEN [ok |-> FALSE, message |-> MismatchText(pos1, pos2), board |-> b]
    ELSE [ok |-> TRUE, message |-> "Plots swapped successfully",
          board |-> Swapped(b, k1, k2, pos1, pos2)]

\* GridBoard.swap_plots of the widgets of items k1 and k2
SwapPlots(b, k1, k2) == SwapAt(b, k1, k2, FindTilePosition(b, k1), FindTilePosition(b, k2))

\* GridBoard.reset_to_size: every widget is taken out, the grid is populated
\* with new empty tiles
ResetToSize(b, rows, cols) == GridBoard(rows, cols)

\* the cells a position covers
Covered(pos) ==
    {<<r, c>> : r \in pos.row..(pos.row + pos.rowspan - 1),
                c \in pos.col..(pos.col + pos.colspan - 1)}

\* one pass of the walk of serialize_layout and export_grid over a cell that
\* is not processed and shows a tile with a plot, item k at position pos: the
\* tile's cells are marked, and the tile is taken if the cell is its first
Visit(acc, cell, k, pos) ==
    IF ~pos.found THEN acc
    ELSE [processed |-> acc.processed \cup Covered(pos),
          taken |-> IF cell = <<pos.row, pos.col>>
                    THEN Append(acc.taken, [k |-> k, pos |-> pos]) ELSE acc.taken]

RECURSIVE Walk(_, _, _, _)
\* the walk over the cells row by row from the i-th on
Walk(b, cells, i, acc) ==
    IF i > Len(cells) THEN acc
    ELSE IF \/ cells[i] \in acc.processed
            \/ ItemAtPosition(b, cells[i][1], cells[i][2]) = 0
            \/ IsEmpty(b.items[ItemAtPosition(b, cells[i][1], cells[i][2])].tile)
    THEN Walk(b, cells, i + 1, acc)
    ELSE Walk(b, cells, i + 1,
              Visit(acc, cells[i], ItemAtPosition(b, cells[i][1], cells[i][2]),
                    FindTilePosition(b, ItemAtPosition(b, cells[i][1], cells[i][2]))))

\* the tiles the walk takes, in order
Taken(b) == Walk(b, Coords(b.rows, b.cols), 1, [processed |-> {}, taken |-> <<>>]).taken

\* "grid_position" of a descriptor
GridPosition(pos) ==
    [row |-> pos.row, col |-> pos.col, rowspan |-> pos.rowspan, colspan |-> pos.colspan]

\* GridBoard.serialize_layout: one descriptor per tile taken, its grid
\* position with the tile's plot data
SerializeOf(b, taken) ==
    [i \in 1..Len(taken) |->
        [grid_position |-> GridPosition(taken[i].pos),
         plot |-> GetPlotData(b.items[taken[i].k].tile, b.items[taken[i].k].tile.df)]]

SerializeLayout(b) == SerializeOf(b, Taken(b))

\* export_grid: one subplot gs[row:row+rowspan, col:col+colspan] per tile
\* taken, with what _render_plot_to_ax draws of the tile
PanelsOf(b, taken) ==
    [i \in 1..Len(taken) |->
        [grid_position |-> GridPosition(taken[i].pos), k |-> taken[i].k,
         axes |-> RenderPlotToAx(b.items[taken[i].k].tile, FreshAxes)]]

ExportPanels(b) == PanelsOf(b, Taken(b))

\* ===================================================================
\* Specification SpecGrid: a 2 x 2 board driven through set_plot and
\* clear_plot on the tiles shown, the layout operations, serialize_layout
\* and export_grid.
\* ===================================================================
NoGridCall ==
    [op |-> "init", args |-> <<>>, ok |-> TRUE, message |-> "", out |-> <<>>, n |-> 0]

GridCall(op, args, ok, message, n) ==
    [op |-> op, args |-> args, ok |-> ok, message |-> message, out |-> <<>>, n |-> n]

\* the plots set on tiles: each datasource with the defaults
GridPlots == {[BaseArgs EXCEPT !.df = id] : id \in {"ds1", "ds2"}}

\* the spans asked for
Spans == {<<1, 1>>, <<1, 2>>, <<2, 1>>, <<2, 2>>}

GridInit ==
    /\ board = GridBoard(2, 2)
    /\ datasources = {"ds1", "ds2"}
    /\ dialog = NoDialog
    /\ bcall = NoGridCall

\* what a grid step leaves alone
GridKeeps == UNCHANGED <<datasources, dialog>> /\ BoardFrame

\* tile_at(r, c).set_plot(...) on a cell that shows a tile
GridSetPlot ==
    \E r \in 0..(board.rows - 1), c \in 0..(board.cols - 1), a \in GridPlots :
        /\ bcall.n < MaxGridOps
        /\ ItemAtPosition(board, r, c) # 0
        /\ \E k \in {ItemAtPosition(board, r, c)} :
               board' = [board EXCEPT !.items[k].tile = SetPlot(@, a).tile]
        /\ bcall' = GridCall("set_plot", <<r, c>>, TRUE, "", bcall.n + 1)
        /\ GridKeeps

\* tile_at(r, c).clear_plot() on a cell that shows a tile with a plot
GridClearPlot ==
    \E r \in 0..(board.rows - 1), c \in 0..(board.cols - 1) :
        /\ bcall.n < MaxGridOps
        /\ HasPlot(board, <<<<r, c>>>>)
        /\ \E k \in {ItemAtPosition(board, r, c)} :
               board' = [board EXCEPT !.items[k].tile = ClearPlot(@)]
        /\ bcall' = GridCall("clear_plot", <<r, c>>, TRUE, "", bcall.n + 1)
        /\ GridKeeps

GridAddRow ==
    /\ bcall.n < MaxGridOps
    /\ (board.rows + 1) * board.cols <= MaxCells
    /\ board' = AddRow(board)
    /\ bcall' = GridCall("add_row", <<>>, TRUE, "", bcall.n + 1)
    /\ GridKeeps

GridAddCol ==
    /\ bcall.n < MaxGridOps
    /\ board.rows * (board.cols + 1) <= MaxCells
    /\ board' = AddCol(board)
    /\ bcall' = GridCall("add_col", <<>>, TRUE, "", bcall.n + 1)
    /\ GridKeeps

\* remove_row(row), the row in range or just outside it
GridRemoveRow ==
    \E row \in -1..board.rows :
        /\ bcall.n < MaxGridOps
        /\ \E res \in {RemoveRow(board, row)} :
               /\ board' = res.board
               /\ bcall' = GridCall("remove_row", <<row>>, res.ok, "", bcall.n + 1)
        /\ GridKeeps

GridRemoveCol ==
    \E col \in -1..board.cols :
        /\ bcall.n < MaxGridOps
        /\ \E res \in {RemoveCol(board, col)} :
               /\ board' = res.board
               /\ bcall' = GridCall("remove_col", <<col>>, res.ok, "", bcall.n + 1)
        /\ GridKeeps

\* move_plot(r, c, r, c, rowspan, colspan): the span of the tile shown at a
\* cell is changed in place, as the settings dialog and the project loader do
GridSpan ==
    \E r \in 0..(board.rows - 1), c \in 0..(board.cols - 1), sp \in Spans :
        /\ bcall.n < MaxGridOps
        /\ (r + sp[1]) * (c + sp[2]) <= MaxCells
        /\ \E b \in {MovePlot(board, r, c, r, c, sp[1], sp[2])} :
               /\ b.rows * b.cols <= MaxCells
               /\ board' = b
        /\ bcall' = GridCall("move_plot", <<r, c, r, c, sp[1], sp[2]>>, TRUE, "", bcall.n + 1)
        /\ GridKeeps

\* swap_plots(tile1, tile2) of two tiles of the layout, named by their place
\* in the layout's list
GridSwap ==
    \E k1 \in 1..Len(board.items), k2 \in 1..Len(board.items) :
        /\ bcall.n < MaxGridOps
        /\ k1 # k2
        /\ \E res \in {SwapPlots(board, k1, k2)} :
               /\ board' = res.board
               /\ bcall' = GridCall("swap_plots", <<k1, k2>>, res.ok, res.message,
                                    bcall.n + 1)
        /\ GridKeeps

\* reset_to_size(2, 2)
GridReset ==
    /\ bcall.n < MaxGridOps
    /\ bcall.op # "init"
    /\ board' = ResetToSize(board, 2, 2)
    /\ bcall' = GridCall("reset_to_size", <<2, 2>>, TRUE, "", bcall.n + 1)
    /\ GridKeeps

\* serialize_layout(datasources)
GridSerialize ==
    /\ bcall.op \notin {"serialize_layout", "export_grid"}
    /\ bcall' = [GridCall("serialize_layout", <<>>, TRUE, "", bcall.n)
                    EXCEPT !.out = SerializeLayout(board)]
    /\ UNCHANGED board
    /\ GridKeeps

\* export_grid(grid_board, ...)
GridExport ==
    /\ bcall.op \notin {"serialize_layout", "export_grid"}
    /\ bcall' = [GridCall("export_grid", <<>>, TRUE, "", bcall.n)
                    EXCEPT !.out = ExportPanels(board)]
    /\ UNCHANGED board
    /\ GridKeeps

GridNext ==
    \/ GridSetPlot \/ GridClearPlot \/ GridAddRow \/ GridAddCol \/ GridRemoveRow
    \/ GridRemoveCol \/ GridSpan \/ GridSwap \/ GridReset \/ GridSerialize \/ GridExport

\* ===================================================================
\* Specification SpecOverlap: set_plot, in-place span changes and the
\* removal of rows and columns, one operation deeper than SpecGrid, on
\* the 2 x 2 board.
\* ===================================================================
\* tile_at(r, c).set_plot(df, x, y) on a cell that shows a tile
OverlapSetPlot ==
    \E r \in 0..(board.rows - 1), c \in 0..(board.cols - 1) :
        /\ bcall.n < MaxOverlapOps
        /\ ItemAtPosition(board, r, c) # 0
        /\ \E k \in {ItemAtPosition(board, r, c)} :
               board' = [board EXCEPT !.items[k].tile =
                             SetPlot(@, [BaseArgs EXCEPT !.df = "ds1"]).tile]
        /\ bcall' = GridCall("set_plot", <<r, c>>, TRUE, "", bcall.n + 1)
        /\ GridKeeps

\* move_plot(r, c, r, c, rowspan, colspan) with a span inside the grid
OverlapSpan ==
    \E r \in 0..(board.rows - 1), c \in 0..(board.cols - 1),
       sp \in {<<1, 1>>, <<1, 2>>, <<2, 1>>} :
        /\ bcall.n < MaxOverlapOps
        /\ r + sp[1] <= board.rows /\ c + sp[2] <= board.cols
        /\ board' = MovePlot(board, r, c, r, c, sp[1], sp[2])
        /\ bcall' = GridCall("move_plot", <<r, c, r, c, sp[1], sp[2]>>, TRUE, "", bcall.n + 1)
        /\ GridKeeps

\* remove_row(row) of a row of the grid
OverlapRemoveRow ==
    \E row \in 0..(board.rows - 1) :
        /\ bcall.n < MaxOverlapOps
        /\ \E res \in {RemoveRow(board, row)} :
               /\ board' = res.board
               /\ bcall' = GridCall("remove_row", <<row>>, res.ok, "", bcall.n + 1)
        /\ GridKeeps

\* remove_col(col) of a column of the grid
OverlapRemoveCol ==
    \E col \in 0..(board.cols - 1) :
        /\ bcall.n < MaxOverlapOps
        /\ \E res \in {RemoveCol(board, col)} :
               /\ board' = res.board
               /\ bcall' = GridCall("remove_col", <<col>>, res.ok, "", bcall.n + 1)
        /\ GridKeeps

OverlapNext == OverlapSetPlot \/ OverlapSpan \/ OverlapRemoveRow \/ OverlapRemoveCol

\* ------------------------------------------------------------- C22
\* how often a placement occurs in the layout's list
Count(items, it) == Cardinality({i \in DOMAIN items : items[i] = it})

\* the same placements, whatever their order in the list
SamePlacements(items1, items2) ==
    /\ Len(items1) = Len(items2)
    /\ \A i \in DOMAIN items1 : Count(items1, items1[i]) = Count(items2, items1[i])

\* the placement of a tile at the position and span of item k
PlacedAs(t, items, k) ==
    Item(t, items[k].row, items[k].col, items[k].rowspan, items[k].colspan)

\* the layout's list with the tiles of items k1 and k2 exchanged
Exchanged(items, k1, k2) ==
    [i \in DOMAIN items |->
        IF i = k1 THEN PlacedAs(items[k2].tile, items, k1)
        ELSE IF i = k2 THEN PlacedAs(items[k1].tile, items, k2)
        ELSE items[i]]

\* some cell of the grid shows item k
Shown(b, k) ==
    \E r \in 0..(b.rows - 1), c \in 0..(b.cols - 1) : ItemAtPosition(b, r, c) = k

SameSpan(items, k1, k2) ==
    /\ items[k1].rowspan = items[k2].rowspan
    /\ items[k1].colspan = items[k2].colspan

\* the text a span mismatch is reported with
SpanMismatchMessage(rs1, cs1, rs2, cs2) ==
    "Cannot swap: Span mismatch.\n\nSource: " \o ToString(rs1) \o "×" \o ToString(cs1)
        \o " span\nTarget: " \o ToString(rs2) \o "×" \o ToString(cs2)
        \o " span\n\nPlease make both plots 1×1 first, then swap."

\* what claim C22 asks of a swap_plots call on items k1 and k2
SwapAsClaimed(k1, k2) ==
    /\ bcall'.ok <=> (Shown(board, k1) /\ Shown(board, k2) /\ SameSpan(board.items, k1, k2))
    /\ bcall'.ok =>
           /\ SamePlacements(board'.items, Exchanged(board.items, k1, k2))
           /\ board'.rows = board.rows /\ board'.cols = board.cols
    /\ (Shown(board, k1) /\ Shown(board, k2) /\ ~SameSpan(board.items, k1, k2)) =>
           /\ ~bcall'.ok
           /\ bcall'.message = SpanMismatchMessage(board.items[k1].rowspan,
                                                   board.items[k1].colspan,
                                                   board.items[k2].rowspan,
                                                   board.items[k2].colspan)
           /\ board' = board

\* C22: swap_plots succeeds exactly when both tiles are found and their
\* spans are equal; on success the two tiles have exchanged positions and
\* spans and every other tile keeps its placement; on a span mismatch it
\* fails with a message that names both spans and no placement changes.
C22_SwapPlots ==
    [][(bcall'.op = "swap_plots" /\ bcall'.n = bcall.n + 1)
          => SwapAsClaimed(bcall'.args[1], bcall'.args[2])]_vars

\* a swap has exchanged a tile with a plot and an empty tile
C22_Witness ==
    /\ bcall.op = "swap_plots" /\ bcall.ok
    /\ \E i, j \in DOMAIN board.items :
           ~IsEmpty(board.items[i].tile) /\ IsEmpty(board.items[j].tile)

\* a swap of a 1 x 2 tile and a 1 x 1 tile was refused
C22_WitnessMismatch ==
    /\ bcall.op = "swap_plots" /\ ~bcall.ok
    /\ bcall.message = SpanMismatchMessage(1, 2, 1, 1)

\* ------------------------------------------------------------- C23
\* the cells an item of the layout covers
CellsOf(it) ==
    {<<r, c>> : r \in it.row..(it.row + it.rowspan - 1),
                c \in it.col..(it.col + it.colspan - 1)}

\* a tile with a plot lies on the cell
HoldsPlot(b, r, c) ==
    \E k \in DOMAIN b.items : ~IsEmpty(b.items[k].tile) /\ <<r, c>> \in CellsOf(b.items[k])

RowRefused(b, row) ==
    \/ row < 0 \/ row >= b.rows
    \/ \E c \in 0..(b.cols - 1) : HoldsPlot(b, row, c)

ColRefused(b, col) ==
    \/ col < 0 \/ col >= b.cols
    \/ \E r \in 0..(b.rows - 1) : HoldsPlot(b, r, col)

RemoveRowAsClaimed ==
    (bcall'.op = "remove_row" /\ bcall'.n = bcall.n + 1) =>
        IF RowRefused(board, bcall'.args[1])
        THEN ~bcall'.ok /\ board' = board
        ELSE bcall'.ok /\ board'.rows = board.rows - 1 /\ board'.cols = board.cols

RemoveColAsClaimed ==
    (bcall'.op = "remove_col" /\ bcall'.n = bcall.n + 1) =>
        IF ColRefused(board, bcall'.args[1])
        THEN ~bcall'.ok /\ board' = board
        ELSE bcall'.ok /\ board'.cols = board.cols - 1 /\ board'.rows = board.rows

\* C23: remove_row(r) returns False and leaves the row count, the column
\* count and every placement as they were when r is out of range or a cell of
\* row r holds a plot; otherwise it returns True and the row count is one
\* less; remove_col does the same for columns.
C23_RemoveRowCol == [][RemoveRowAsClaimed /\ RemoveColAsClaimed]_vars

\* the tile that tile_at returns for the cell has a plot
ShowsPlot(b, r, c) ==
    ItemAtPosition(b, r, c) # 0 /\ ~IsEmpty(b.items[ItemAtPosition(b, r, c)].tile)

RemoveRowOnShown ==
    (bcall'.op = "remove_row" /\ bcall'.n = bcall.n + 1) =>
        IF \/ bcall'.args[1] < 0 \/ bcall'.args[1] >= board.rows
           \/ \E c \in 0..(board.cols - 1) : ShowsPlot(board, bcall'.args[1], c)
        THEN ~bcall'.ok /\ board' = board
        ELSE bcall'.ok /\ board'.rows = board.rows - 1 /\ board'.cols = board.cols

RemoveColOnShown ==
    (bcall'.op = "remove_col" /\ bcall'.n = bcall.n + 1) =>
        IF \/ bcall'.args[1] < 0 \/ bcall'.args[1] >= board.cols
           \/ \E r \in 0..(board.rows - 1) : ShowsPlot(board, r, bcall'.args[1])
        THEN ~bcall'.ok /\ board' = board
        ELSE bcall'.ok /\ board'.cols = board.cols - 1 /\ board'.rows = board.rows

\* C23, what the code keeps: remove_row and remove_col refuse, with the board
\* unchanged, exactly when the index is out of range or the tile that tile_at
\* returns for a cell of the row or column has a plot; otherwise they
\* return True and the count is one less.
C23_RefusesOnShownPlot == [][RemoveRowOnShown /\ RemoveColOnShown]_vars

\* a row was removed although a tile with a plot lay on it, under an empty
\* tile that spans the cell
C23_RemovedWithPlot ==
    /\ bcall.op = "remove_row" /\ bcall.ok
    /\ \E k \in DOMAIN board.items :
           ~IsEmpty(board.items[k].tile) /\ board.items[k].row >= board.rows

\* remove_row was refused for a row of the grid, which holds a plot
C23_Witness ==
    /\ bcall.op = "remove_row" /\ ~bcall.ok
    /\ bcall.args[1] \in 0..(board.rows - 1)
    /\ \E c \in 0..(board.cols - 1) : HoldsPlot(board, bcall.args[1], c)

\* remove_col removed a column of a board that holds a plot elsewhere
C23_WitnessRemoved ==
    /\ bcall.op = "remove_col" /\ bcall.ok
    /\ board.cols = 1
    /\ \E r \in 0..(board.rows - 1) : HoldsPlot(board, r, 0)

\* ------------------------------------------------------------- C26
\* the items of the layout that cover the cell
Covering(b, r, c) == {k \in DOMAIN b.items : <<r, c>> \in CellsOf(b.items[k])}

\* C26: after any sequence of add_row, add_col, remove_row, remove_col,
\* move_plot (span changes in place included), swap_plots and reset_to_size,
\* every cell of the grid is covered by exactly one tile, so that tile_at
\* and first_empty_coord are defined on every cell.
C26_EveryCellCoveredOnce ==
    /\ \A r \in 0..(board.rows - 1), c \in 0..(board.cols - 1) :
           Cardinality(Covering(board, r, c)) = 1
    /\ ~FirstEmptyCoord(board).raised

\* every tile is 1 x 1 and every cell of the grid is covered by exactly one
UnitCover(b) ==
    /\ \A k \in DOMAIN b.items : b.items[k].rowspan = 1 /\ b.items[k].colspan = 1
    /\ \A r \in 0..(b.rows - 1), c \in 0..(b.cols - 1) : Cardinality(Covering(b, r, c)) = 1

\* the part of C26 the code keeps: on a board of 1 x 1 tiles that cover every
\* cell once, every operation but move_plot leaves such a board
C26_UnitTilesKeepCover ==
    [][(UnitCover(board) /\ bcall'.op # "move_plot") => UnitCover(board')]_vars

\* a span shrunk in place has left a cell without a tile
C26_Hole ==
    /\ bcall.op = "move_plot"
    /\ \E r \in 0..(board.rows - 1), c \in 0..(board.cols - 1) : Covering(board, r, c) = {}

\* a span grown in place has put a tile over a tile with a plot
C26_Overlap ==
    /\ bcall.op = "move_plot"
    /\ \E r \in 0..(board.rows - 1), c \in 0..(board.cols - 1) :
           Cardinality(Covering(board, r, c)) = 2

\* ------------------------------------------------------------- C27
\* the tiles of the board that hold a plot
NonEmpty(b) == {k \in DOMAIN b.items : ~IsEmpty(b.items[k].tile)}

\* the descriptor is that of item k: its top-left cell, its span, its plot
Describes(d, b, k) ==
    /\ d.grid_position = [row |-> b.items[k].row, col |-> b.items[k].col,
                          rowspan |-> b.items[k].rowspan, colspan |-> b.items[k].colspan]
    /\ d.plot = GetPlotData(b.items[k].tile, b.items[k].tile.df)

\* the descriptors are those of the tiles with a plot, one for each
ListsEach(out, b) ==
    \E f \in [DOMAIN out -> NonEmpty(b)] :
        /\ \A i \in DOMAIN out : Describes(out[i], b, f[i])
        /\ \A i, j \in DOMAIN out : f[i] = f[j] => i = j
        /\ \A k \in NonEmpty(b) : \E i \in DOMAIN out : f[i] = k

\* C27: after any sequence of set_plot, clear_plot and grid operations,
\* serialize_layout returns exactly one descriptor for each tile with a plot,
\* with the tile's top-left cell and span: none is left out, none is listed
\* twice.
C27_SerializeListsEach ==
    bcall.op = "serialize_layout" => ListsEach(bcall.out, board)

\* no cell of the grid lies under two tiles
NoOverlap(b) ==
    \A r \in 0..(b.rows - 1), c \in 0..(b.cols - 1) : Cardinality(Covering(b, r, c)) <= 1

\* the part of C27 the code keeps: where no two tiles overlap, every tile
\* with a plot is listed once with its cell and span
C27_ListsEachWithoutOverlap ==
    (bcall.op = "serialize_layout" /\ NoOverlap(board)) => ListsEach(bcall.out, board)

\* a layout was serialized in which a tile with a plot spans two cells and
\* another lies next to it
C27_WitnessSpan ==
    /\ bcall.op = "serialize_layout" /\ NoOverlap(board)
    /\ Len(bcall.out) = 2
    /\ \E i \in DOMAIN bcall.out : bcall.out[i].grid_position.colspan = 2

\* a layout was serialized in which a tile with a plot lies under another
C27_Omitted ==
    /\ bcall.op = "serialize_layout"
    /\ Len(bcall.out) < Cardinality(NonEmpty(board))

\* ------------------------------------------------------------- C21
\* the sub-panel is that of item k: at its top-left cell, over its span, with
\* the tile's plot drawn on it
PanelOf(p, b, k) ==
    /\ p.grid_position = [row |-> b.items[k].row, col |-> b.items[k].col,
                          rowspan |-> b.items[k].rowspan, colspan |-> b.items[k].colspan]
    /\ p.axes = RenderPlotToAx(b.items[k].tile, FreshAxes)

\* the sub-panels are those of the tiles with a plot, one for each
PanelForEach(out, b) ==
    \E f \in [DOMAIN out -> NonEmpty(b)] :
        /\ \A i \in DOMAIN out : PanelOf(out[i], b, f[i])
        /\ \A i, j \in DOMAIN out : f[i] = f[j] => i = j
        /\ \A k \in NonEmpty(b) : \E i \in DOMAIN out : f[i] = k

\* the sub-panels come in the order of their top-left cells, row by row
RowMajor(out) ==
    \A i, j \in DOMAIN out :
        i < j => \/ out[i].grid_position.row < out[j].grid_position.row
                 \/ /\ out[i].grid_position.row = out[j].grid_position.row
                    /\ out[i].grid_position.col < out[j].grid_position.col

\* C21: export_grid walks the cells row by row and allocates exactly one
\* sub-panel for each non-empty tile, at the tile's top-left cell over its
\* rowspan x colspan region; covered cells are skipped, and an empty tile
\* gets no sub-panel and does not abort the export.
C21_PanelPerTile ==
    bcall.op = "export_grid" =>
        /\ bcall.ok
        /\ PanelForEach(bcall.out, board)
        /\ RowMajor(bcall.out)

\* the part of C21 the code keeps: where no two tiles overlap, every tile
\* with a plot gets its sub-panel, in row-major order
C21_PanelPerTileWithoutOverlap ==
    (bcall.op = "export_grid" /\ NoOverlap(board)) =>
        /\ bcall.ok
        /\ PanelForEach(bcall.out, board)
        /\ RowMajor(bcall.out)

\* a grid was exported with a spanning tile with a plot, a 1 x 1 tile with a
\* plot and an empty tile
C21_WitnessSpan ==
    /\ bcall.op = "export_grid" /\ NoOverlap(board)
    /\ Len(bcall.out) = 2
    /\ \E i \in DOMAIN bcall.out : bcall.out[i].grid_position.rowspan = 2
    /\ \E k \in DOMAIN board.items : IsEmpty(board.items[k].tile)

\* a grid was exported in which a tile with a plot lies under another
C21_NoPanel ==
    /\ bcall.op = "export_grid"
    /\ Len(bcall.out) < Cardinality(NonEmpty(board))

\* ===================================================================
\* api.create_plot and api.create_grouped_plots
\* ===================================================================
\* create_plot: the descriptor, without its random id
CreatePlot(datasource_id, a, row, col, fq, ylim, title) ==
    [grid_position |-> [row |-> row, col |-> col, rowspan |-> 1, colspan |-> 1],
     datasource_id |-> datasource_id, x |-> a.x, y |-> a.y, hue |-> a.hue,
     sem_column |-> a.sem_column, sem_precomputed |-> a.sem_precomputed,
     filter_query |-> FilterDict(fq),
     ylim |-> IF ylim.kind = "none" THEN NoneLimit ELSE ListLimit(ylim.lo, ylim.hi),
     title |-> title]

\* ", ".join(f"{k}={v}" for k, v in fq.items()), None for an empty filter
GroupTitle(fq) ==
    IF fq # <<>>
    THEN Join([i \in 1..Len(fq) |-> fq[i][1] \o "=" \o Str(fq[i][2])], ", ")
    ELSE None

\* the plots of the loop over the filters, with the y-limits settled
GroupedPlots(a, fqs, ylim) ==
    [raised |-> FALSE,
     plots |-> [i \in 1..Len(fqs) |->
                   CreatePlot(a.datasource_id, a,
                              IF a.layout = "row" THEN a.start_row ELSE a.start_row + i - 1,
                              IF a.layout = "row" THEN a.start_col + i - 1 ELSE a.start_col,
                              fqs[i], ylim, GroupTitle(fqs[i]))]]

\* the limits computed when no ylim is given and there are several filters
GroupedLimits(df, a, fqs) ==
    IF a.sem_column # None
    THEN SharedLimitsWithSem(df, fqs, a.x, a.y, a.sem_column, a.hue, a.sem_precomputed)
    ELSE Returned(SharedLimits(Subsets(df, fqs), a.x, a.y))

\* create_grouped_plots once the limits are computed: their exception leaves
\* the function, otherwise ylim = list(ylim_tuple)
GroupedWith(a, fqs, lim) ==
    IF lim.raised THEN [raised |-> TRUE, plots |-> <<>>]
    ELSE GroupedPlots(a, fqs, ListLimit(lim.y[1], lim.y[2]))

\* create_grouped_plots after expand_groups
GroupedOf(df, a, exp) ==
    IF exp.raised THEN [raised |-> TRUE, plots |-> <<>>]
    ELSE IF a.ylim.kind = "none" /\ Len(exp.combos) > 1
    THEN GroupedWith(a, exp.combos, GroupedLimits(df, a, exp.combos))
    ELSE GroupedPlots(a, exp.combos, a.ylim)

\* create_grouped_plots(datasource_id, dataframe_path, x, y, groups, ...) on
\* the dataframe read from the path: the list returned, or the exception
CreateGroupedPlots(df, a) == GroupedOf(df, a, ExpandGroups(df, a.groups))

\* ===================================================================
\* Specification SpecApi: create_grouped_plots on every small numeric
\* dataframe, for chosen groups, placements, limits, SEM columns and hues.
\* ===================================================================
NoApiCall ==
    [fn |-> "none", datasource_id |-> "ds1", x |-> "x", y |-> "y", groups |-> <<>>,
     start_row |-> 0, start_col |-> 0, layout |-> "row", hue |-> HueNone,
     sem_column |-> None, sem_precomputed |-> FALSE, ylim |-> NoneLimit]

\* the grouping columns, where the plots start and how they run
Groupings ==
    {[NoApiCall EXCEPT !.groups = gs, !.start_row = pl[1], !.start_col = pl[2],
                       !.layout = pl[3]] :
        gs \in {<<>>, <<"g">>, <<"h", "g">>},
        pl \in {<<0, 0, "row">>, <<1, 2, "col">>, <<2, 1, "row">>}}

\* the SEM column, its mode and the hue of a call
SemAndHue ==
    {<<None, FALSE, HueNone>>, <<"s", FALSE, HueNone>>, <<"s", TRUE, HueStr("g")>>,
     <<"s", FALSE, HueList(<<"g", "h">>)>>, <<None, FALSE, HueList(<<"g", "h">>)>>}

ApiCalls ==
    {[a EXCEPT !.fn = "create_grouped_plots", !.sem_column = sh[1],
               !.sem_precomputed = sh[2], !.hue = sh[3], !.ylim = yl] :
        a \in Groupings, sh \in SemAndHue,
        yl \in {NoneLimit, TupleLimit(Plain(R(0)), Plain(R(5)))}}

ApiInit ==
    /\ ldf \in {df \in SeqsUpTo(LimRows, MaxLimRows) : LimDescending(df) /\ NumericFrame(df)}
    /\ lfilters = <<>>
    /\ lcall = NoApiCall
    /\ lout = [raised |-> FALSE, plots |-> <<>>]
    /\ lheld = <<>>

\* one call of create_grouped_plots on the dataframe
ApiCreateGroupedPlots ==
    /\ lcall.fn = "none"
    /\ \E a \in ApiCalls :
           /\ lcall' = a
           /\ lout' = CreateGroupedPlots(ldf, a)
    /\ UNCHANGED <<ldf, lfilters, lheld>>
    /\ LimFrame

ApiNext == ApiCreateGroupedPlots

\* ------------------------------------------------------------- C24
\* the combinations of the call's grouping columns
Combos == ExpandGroups(ldf, lcall.groups).combos

\* the cell of the i-th plot
CellOf(i) ==
    IF lcall.layout = "row" THEN <<lcall.start_row, lcall.start_col + i - 1>>
    ELSE <<lcall.start_row + i - 1, lcall.start_col>>

\* the i-th plot is that of the i-th combination, at its cell
PlotOfCombination(i) ==
    /\ lout.plots[i].filter_query = FilterDict(Combos[i])
    /\ <<lout.plots[i].grid_position.row, lout.plots[i].grid_position.col>> = CellOf(i)

\* the shared y-range of the combinations' subsets
SharedYRange == GroupedLimits(ldf, lcall, Combos).y

\* every plot carries the caller's ylim if one was given, else the shared
\* y-range when there are several combinations
CarriesYlim(i) ==
    /\ lout.plots[i].ylim = lout.plots[1].ylim
    /\ lcall.ylim.kind # "none" =>
           /\ lout.plots[i].ylim.kind # "none"
           /\ lout.plots[i].ylim.lo = lcall.ylim.lo
           /\ lout.plots[i].ylim.hi = lcall.ylim.hi
    /\ (lcall.ylim.kind = "none" /\ Len(Combos) > 1) =>
           /\ lout.plots[i].ylim.kind # "none"
           /\ <<lout.plots[i].ylim.lo, lout.plots[i].ylim.hi>> = SharedYRange

AsClaimed ==
    /\ Len(lout.plots) = Len(Combos)
    /\ \A i \in 1..Len(lout.plots) : PlotOfCombination(i) /\ CarriesYlim(i)

\* C24: create_grouped_plots returns one plot per combination of
\* expand_groups, in order, the i-th with the i-th combination as its
\* filter_query, at (start_row, start_col + i) for the layout "row" and at
\* (start_row + i, start_col) for "col"; all carry the same ylim, the caller's
\* if given, else the shared y-range when there is more than one combination.
C24_OnePlotPerCombination ==
    lcall.fn = "create_grouped_plots" => (~lout.raised /\ AsClaimed)

\* the part of C24 the code keeps: a call that returns, returns as claimed
C24_ReturnedAsClaimed ==
    (lcall.fn = "create_grouped_plots" /\ ~lout.raised) => AsClaimed

\* the call raises exactly when it has to compute the limits of several
\* combinations with a SEM column and a list of hue columns
C24_RaisesOnListHue ==
    lcall.fn = "create_grouped_plots" =>
        (lout.raised <=> /\ lcall.ylim.kind = "none" /\ Len(Combos) > 1
                         /\ lcall.sem_column # None /\ lcall.hue.kind = "list")

\* two plots down a column from (1, 2) with the computed y-range
C24_Witness ==
    /\ lcall.fn = "create_grouped_plots" /\ ~lout.raised
    /\ lcall.layout = "col" /\ lcall.ylim.kind = "none" /\ lcall.sem_column = "s"
    /\ Len(lout.plots) = 2
    /\ lout.plots[2].grid_position.row = 2 /\ lout.plots[2].grid_position.col = 2

\* a call with a list of hue columns and a SEM column has raised
C24_Raised == lcall.fn = "create_grouped_plots" /\ lout.raised

\* ===================================================================
\* ErrorMarkersManagerDialog (ui/dialogs.py) and
\* PlotTile._open_markers_dialog
\* ===================================================================
\* no dialog open; op is the dialog's last operation, sel the list index it
\* had selected (0 for none), n the operations since the dialog was opened
NoMarkersDialog ==
    [open |-> FALSE, markers |-> <<>>, op |-> "none", sel |-> 0, raised |-> FALSE, n |-> 0]

\* marker_combo.findData(shape): the index of the shape among the combo's
\* items, -1 for a shape it does not have
FindData(shape) ==
    CASE shape = "v" -> 0 [] shape = "^" -> 1 [] shape = "o" -> 2 [] shape = "s" -> 3
      [] shape = "D" -> 4 [] shape = "*" -> 5 [] shape = "x" -> 6 [] shape = "+" -> 7
      [] shape = "<" -> 8 [] shape = ">" -> 9 [] OTHER -> -1

\* self._markers[index] = m, index counted from 0 and from the end if
\* negative: raised is the IndexError
SetItem(markers, index, m) ==
    IF index >= Len(markers) \/ index < 0 - Len(markers)
    THEN [raised |-> TRUE, markers |-> markers]
    ELSE [raised |-> FALSE,
          markers |-> [markers EXCEPT ![IF index >= 0 THEN index + 1
                                        ELSE Len(markers) + index + 1] = m]]

\* mutant of EditMarker: the marker at the selected row is replaced
EditMarkerAtRow(markers, sel, updated) == SetItem(markers, sel - 1, updated)

\* ErrorMarkersManagerDialog._edit_marker with the row sel selected (from 1)
\* and the marker dialog accepted with `updated`: index, first the selected
\* row, is assigned marker_combo.findData(marker_shape) before it is used in
\* self._markers[index] = updated_marker
EditMarker(markers, sel, updated) ==
    SetItem(markers, FindData(MarkerShape(markers[sel])), updated)

\* the arguments _open_markers_dialog gives set_plot: the stored fields, the
\* title read from the axes, no xlim
StoredArgs(t, title) ==
    [df |-> t.df, x |-> t.x, y |-> t.y, hue |-> t.hue, sem_column |-> t.sem_column,
     sem_precomputed |-> t.sem_precomputed, title |-> title,
     filter_query |-> t.filter_query, xlim |-> NoneLimit, ylim |-> t.ylim,
     hlines |-> t.hlines, vlines |-> t.vlines, style_line |-> t.style_line,
     style_marker |-> t.style_marker, error_markers |-> t.error_markers]

\* mutant of AcceptMarkers: the plot is drawn again without its title
AcceptMarkersUntitled(t, markers) ==
    SetPlot([t EXCEPT !.error_markers = markers],
            StoredArgs([t EXCEPT !.error_markers = markers], None))

\* _open_markers_dialog once the dialog was accepted with the list markers:
\* the list is stored and a tile with a plot is rendered again
AcceptMarkers(t, markers) ==
    IF t.df # None /\ t.x # None /\ t.y # None
    THEN SetPlot([t EXCEPT !.error_markers = markers],
                 StoredArgs([t EXCEPT !.error_markers = markers], RenderedTitle(t)))
    ELSE [tile |-> [t EXCEPT !.error_markers = markers], warned |-> 0, raised |-> FALSE]

\* ===================================================================
\* Specification SpecDialog: one tile, plotted and then edited through
\* its marker-management dialog.
\* ===================================================================
\* a marker with a shape the dialog's combo box does not offer
MarkerP ==
    [x |-> R(1), y |-> NaN, xerr |-> R(1), yerr |-> NaN, marker |-> "P",
     color |-> "blue", label |-> None]

\* the markers the single-marker dialog returns
NewStar ==
    [x |-> NaN, y |-> NaN, xerr |-> R(1), yerr |-> NaN, marker |-> "*",
     color |-> "red", label |-> None]
NewUp ==
    [x |-> R(1), y |-> NaN, xerr |-> NaN, yerr |-> R(1), marker |-> "^",
     color |-> "blue", label |-> "up"]

DialogMarkers == {NewStar, NewUp}

\* the plots the dialog is opened on
DialogPlots ==
    {BaseArgs,
     [BaseArgs EXCEPT !.hue = HueStr("g"), !.sem_column = "s", !.title = "T",
                      !.xlim = TupleLimit(Plain(R(0)), Plain(R(4))),
                      !.ylim = TupleLimit(Plain(R(-1)), Plain(R(4))),
                      !.hlines = <<R(1)>>, !.vlines = <<R(2)>>,
                      !.error_markers = <<MarkerA, MarkerB, MarkerC>>],
     [BaseArgs EXCEPT !.xlim = TupleLimit(Plain(R(0)), Plain(R(4))),
                      !.error_markers = <<MarkerA>>],
     [BaseArgs EXCEPT !.style_marker = TRUE, !.error_markers = <<MarkerP, MarkerC>>],
     [BaseArgs EXCEPT !.filter_query = FilterDict(<< <<"g", R(3)>> >>), !.title = "T",
                      !.error_markers = <<MarkerB>>],
     [BaseArgs EXCEPT !.filter_query = FilterDict(<< <<"z", R(1)>> >>),
                      !.error_markers = <<MarkerB>>]}

DialogInit ==
    /\ TileInit
    /\ mdialog = NoMarkersDialog

\* what a step of the dialog leaves alone
DialogKeeps == UNCHANGED <<copy, exported, saved, tlog, held>> /\ DialogFrame

\* tile.set_plot(**a), before the dialog is opened
DialogSetPlot ==
    \E a \in DialogPlots :
        /\ ~mdialog.open /\ mdialog.n = 0
        /\ \E res \in {SetPlot(tile, a)} :
               /\ tile' = res.tile
               /\ tcall' = [tcall EXCEPT !.op = IF res.raised THEN "set_plot_raised"
                                                               ELSE "set_plot",
                                         !.args = a]
        /\ copy' = FreshTile
        /\ UNCHANGED <<mdialog, exported, saved, tlog, held>>
        /\ DialogFrame

\* "Manage Error Markers..." of the context menu of a tile with a plot:
\* ErrorMarkersManagerDialog(self, markers=self._error_markers)
DialogOpen ==
    /\ ~mdialog.open /\ mdialog.n < MaxDialogOps
    /\ ~IsEmpty(tile)
    /\ mdialog' = [open |-> TRUE, markers |-> tile.error_markers, op |-> "open",
                   sel |-> 0, raised |-> FALSE, n |-> mdialog.n + 1]
    /\ UNCHANGED <<tile, tcall>>
    /\ DialogKeeps

\* "Add Marker": the single-marker dialog accepted with a marker, or cancelled
DialogAdd ==
    /\ mdialog.open /\ mdialog.n < MaxDialogOps
    /\ \/ \E m \in DialogMarkers :
              /\ Len(mdialog.markers) < MaxMarkers
              /\ mdialog' = [mdialog EXCEPT !.markers = Append(@, m), !.op = "add",
                                            !.sel = 0, !.raised = FALSE, !.n = @ + 1]
       \/ mdialog' = [mdialog EXCEPT !.op = "add_cancelled", !.sel = 0,
                                     !.raised = FALSE, !.n = @ + 1]
    /\ UNCHANGED <<tile, tcall>>
    /\ DialogKeeps

\* "Edit Selected": without a selection a message box; with the row sel
\* selected, the single-marker dialog accepted with a marker, or cancelled
DialogEdit ==
    /\ mdialog.open /\ mdialog.n < MaxDialogOps
    /\ \/ mdialog' = [mdialog EXCEPT !.op = "edit_nothing", !.sel = 0,
                                     !.raised = FALSE, !.n = @ + 1]
       \/ \E sel \in 1..Len(mdialog.markers) :
              \/ mdialog' = [mdialog EXCEPT !.op = "edit_cancelled", !.sel = sel,
                                            !.raised = FALSE, !.n = @ + 1]
              \/ \E m \in DialogMarkers :
                     \E res \in {EditMarker(mdialog.markers, sel, m)} :
                         mdialog' = [mdialog EXCEPT !.markers = res.markers, !.op = "edit",
                                                   !.sel = sel, !.raised = res.raised,
                                                   !.n = @ + 1]
    /\ UNCHANGED <<tile, tcall>>
    /\ DialogKeeps

\* "Delete Selected" with the row sel selected
DialogDelete ==
    /\ mdialog.open /\ mdialog.n < MaxDialogOps
    /\ \E sel \in 1..Len(mdialog.markers) :
           mdialog' = [mdialog EXCEPT !.markers = RemoveItem(@, sel), !.op = "delete",
                                     !.sel = sel, !.raised = FALSE, !.n = @ + 1]
    /\ UNCHANGED <<tile, tcall>>
    /\ DialogKeeps

\* OK: get_markers returns the dialog's list
DialogAccept ==
    /\ mdialog.open
    /\ \E res \in {AcceptMarkers(tile, mdialog.markers)} :
           /\ tile' = res.tile
           /\ tcall' = [tcall EXCEPT !.op = IF res.raised THEN "markers_accepted_raised"
                                                           ELSE "markers_accepted"]
    /\ mdialog' = [mdialog EXCEPT !.open = FALSE, !.op = "accept", !.sel = 0,
                                  !.raised = FALSE]
    /\ copy' = FreshTile
    /\ UNCHANGED <<exported, saved, tlog, held>>
    /\ DialogFrame

\* Cancel: get_markers returns None
DialogCancel ==
    /\ mdialog.open
    /\ mdialog' = [mdialog EXCEPT !.open = FALSE, !.op = "cancel", !.sel = 0,
                                  !.raised = FALSE]
    /\ UNCHANGED <<tile, tcall>>
    /\ DialogKeeps

\* fresh = PlotTile(); fresh.set_plot_from_data(df, tile.get_plot_data(id)),
\* as a project is saved and loaded, while no dialog is open
DialogRoundTrip ==
    /\ ~mdialog.open
    /\ ~IsEmpty(tile)
    /\ tcall.op \notin {"round_trip", "round_trip_raised"}
    /\ \E res \in {SetPlotFromData(FreshTile, tile.df, GetPlotData(tile, tile.df))} :
           /\ copy' = res.tile
           /\ tcall' = [tcall EXCEPT !.op = IF res.raised THEN "round_trip_raised"
                                                           ELSE "round_trip"]
    /\ UNCHANGED <<tile, mdialog, exported, saved, tlog, held>>
    /\ DialogFrame

DialogNext ==
    \/ DialogSetPlot \/ DialogOpen \/ DialogAdd \/ DialogEdit \/ DialogDelete
    \/ DialogAccept \/ DialogCancel \/ DialogRoundTrip

\* ------------------------------------------------------------- C28
\* the step is an accepted "Edit Selected"
EditStep == mdialog'.op = "edit" /\ mdialog'.n = mdialog.n + 1

\* C28: an accepted "Edit Selected" replaces exactly the marker at the
\* selected list index by the edited marker; the number of markers and every
\* marker at another index are unchanged, whatever the marker's shape.
C28_EditReplacesSelected ==
    [][EditStep =>
          \E m \in DialogMarkers :
              mdialog'.markers = [mdialog.markers EXCEPT ![mdialog'.sel] = m]]_vars

\* what the code does: the marker replaced is the one at the position of the
\* selected marker's shape among the shapes of the combo box (the last one
\* for a shape the box does not have), and nothing is replaced when the list
\* is shorter than that
C28_EditReplacesAtShapeIndex ==
    [][EditStep =>
          \E m \in DialogMarkers, k \in {FindData(MarkerShape(mdialog.markers[mdialog'.sel]))} :
              IF k >= Len(mdialog.markers)
              THEN mdialog'.raised /\ mdialog'.markers = mdialog.markers
              ELSE /\ ~mdialog'.raised
                   /\ mdialog'.markers =
                          [mdialog.markers EXCEPT ![IF k < 0 THEN Len(mdialog.markers)
                                                    ELSE k + 1] = m]]_vars

\* the first row was selected and the edit has replaced the third marker
C28_OtherReplaced ==
    /\ mdialog.op = "edit" /\ mdialog.sel = 1 /\ ~mdialog.raised
    /\ Len(mdialog.markers) = 3
    /\ mdialog.markers[1] = MarkerA /\ mdialog.markers[3] \in DialogMarkers

\* the edit of the only marker has raised and replaced nothing
C28_EditRaised ==
    mdialog.op = "edit" /\ mdialog.raised /\ mdialog.markers = <<MarkerA>>

\* ------------------------------------------------------------- C25
\* the fields of the tile's plot, its markers apart
SameFields(t1, t2) ==
    /\ t1.df = t2.df /\ t1.x = t2.x /\ t1.y = t2.y /\ t1.hue = t2.hue
    /\ t1.sem_column = t2.sem_column /\ t1.sem_precomputed = t2.sem_precomputed
    /\ t1.filter_query = t2.filter_query
    /\ t1.hlines = t2.hlines /\ t1.vlines = t2.vlines
    /\ t1.style_line = t2.style_line /\ t1.style_marker = t2.style_marker
    /\ t1.ylim = t2.ylim

\* the figure of a first render of the plot last set, with the markers given
\* and the x-axis left to its automatic range
RenderedAnew(markers) ==
    SetPlot(FreshTile, [tcall.args EXCEPT !.error_markers = markers,
                                          !.xlim = NoneLimit]).tile.figure

AcceptStep == mdialog.open /\ mdialog'.op = "accept"

CancelStep == mdialog.open /\ mdialog'.op = "cancel"

\* the tile after the step holds the dialog's list and is rendered with it
Rerendered ==
    /\ tile'.error_markers = mdialog.markers
    /\ SameFields(tile', tile)
    /\ RenderedTitle(tile') = RenderedTitle(tile)
    /\ Len(tile'.figure) = 1
    /\ tile'.figure = RenderedAnew(mdialog.markers)

\* C25: when the marker-management dialog is accepted, the tile's markers
\* become the dialog's list and the full render is run again on the tile's
\* figure with the stored state: dataframe, x, y, hue, SEM column and mode,
\* filter, reference lines, style flags, y-limits and title are unchanged and
\* the figure has exactly one axes; when it is cancelled, the tile's markers
\* and its rendering are unchanged, whatever was done inside the dialog.
C25_AcceptRerenders == [][(AcceptStep => Rerendered) /\ (CancelStep => tile' = tile)]_vars

\* the same for the tiles whose plot was drawn: the stored filter names
\* columns of the dataframe
C25_AcceptRerendersDrawn ==
    [][/\ (AcceptStep /\ ~FilterRaises(tile.filter_query)) => Rerendered
       /\ CancelStep => tile' = tile]_vars

\* the dialog was accepted with another list than the tile had, on a plot
\* with a title, y-limits and reference lines
C25_Witness ==
    /\ tcall.op = "markers_accepted" /\ mdialog.op = "accept"
    /\ tile.error_markers # tcall.args.error_markers
    /\ tile.error_markers # <<>>
    /\ tcall.args.title = "T" /\ tcall.args.ylim.kind # "none" /\ tcall.args.hlines # <<>>

\* the dialog was cancelled after its list was changed
C25_WitnessCancelled ==
    /\ mdialog.op = "cancel" /\ mdialog.markers # tile.error_markers
    /\ tile.error_markers # <<>>

\* the dialog was accepted on a tile whose set_plot had raised
C25_WitnessRaised == tcall.op = "markers_accepted_raised" /\ tile.figure = <<>>

\* ------------------------------------------------------------- C30
\* the x view of the first render: the limits passed to set_plot
OriginalXView == FixedView(tcall.args.xlim.lo, tcall.args.xlim.hi)

\* C30: shared x-limits passed to set_plot remain the tile's x view limits
\* after every later re-render: after the marker-management dialog is
\* accepted, and on the tile a get_plot_data / set_plot_from_data round trip
\* loads.
C30_XLimitsKept ==
    tcall.args.xlim.kind # "none" =>
        /\ tcall.op = "markers_accepted" => tile.figure[1].xview = OriginalXView
        /\ tcall.op = "round_trip" => copy.figure[1].xview = OriginalXView

\* what the code does: the first render has the limits, every re-render has
\* the automatic x range, while the y-limits are kept
C30_XLimitsLost ==
    /\ tcall.op = "set_plot" =>
           tile.figure[1].xview = IF tcall.args.xlim.kind # "none" THEN OriginalXView
                                  ELSE AutoView
    /\ tcall.op = "markers_accepted" =>
           /\ tile.figure[1].xview = AutoView
           /\ tcall.args.ylim.kind # "none" =>
                  tile.figure[1].yview = FixedView(tcall.args.ylim.lo, tcall.args.ylim.hi)
    /\ tcall.op = "round_trip" =>
           /\ copy.figure[1].xview = AutoView
           /\ tcall.args.ylim.kind # "none" =>
                  copy.figure[1].yview = FixedView(tcall.args.ylim.lo, tcall.args.ylim.hi)

\* the dialog was accepted on a plot made with x-limits
C30_AcceptedWithXLimits == tcall.op = "markers_accepted" /\ tcall.args.xlim.kind # "none"

\* a plot made with x-limits went through the round trip
C30_RoundTripWithXLimits ==
    /\ tcall.op = "round_trip" /\ tcall.args.xlim.kind # "none"
    /\ tile.figure[1].xview = OriginalXView

\* ===================================================================
\* Specification SpecStack: both marker renderers on axes with a fixed
\* view and a bucket of up to MaxStack markers without a coordinate on
\* the stacking axis.
\* ===================================================================
\* view ranges of positive width
StackViews ==
    {FixedView(Plain(R(0)), Plain(R(4))), FixedView(Plain(R(-1)), Plain(R(4))),
     FixedView(Plain(R(2)), Plain(R(3))), FixedView(Plain(R(-3)), Plain(RDivInt(R(-1), 2)))}

\* n markers of one bucket: x-error markers without y, y-error markers
\* without x
Stack(bucket, n) == [i \in 1..n |-> IF bucket = "x" THEN MarkerC ELSE MarkerB]

\* the axes the markers are drawn on: both axes with the view
ViewedAxes(view) == [FreshAxes EXCEPT !.xview = view, !.yview = view]

StackInit == TileInit

\* _render_error_markers of a tile holding the markers
StackRenderLive ==
    /\ tcall.op = "init"
    /\ \E n \in 0..MaxStack, bucket \in {"x", "y"}, view \in StackViews :
           /\ exported' = RenderErrorMarkers(ViewedAxes(view), Stack(bucket, n))
           /\ tcall' = [tcall EXCEPT !.op = "render_error_markers",
                                     !.args = [n |-> n, bucket |-> bucket, view |-> view]]
    /\ UNCHANGED <<tile, copy, saved, tlog, held>>
    /\ DialogFrame /\ UNCHANGED mdialog

\* _render_error_markers_to_ax of the export
StackRenderExport ==
    /\ tcall.op = "init"
    /\ \E n \in 0..MaxStack, bucket \in {"x", "y"}, view \in StackViews :
           /\ exported' = RenderErrorMarkersToAx(ViewedAxes(view), Stack(bucket, n))
           /\ tcall' = [tcall EXCEPT !.op = "render_error_markers_to_ax",
                                     !.args = [n |-> n, bucket |-> bucket, view |-> view]]
    /\ UNCHANGED <<tile, copy, saved, tlog, held>>
    /\ DialogFrame /\ UNCHANGED mdialog

StackNext == StackRenderLive \/ StackRenderExport

\* ------------------------------------------------------------- C29
\* the coordinates worked out for the markers drawn, on the stacking axis
StackedCoords ==
    {IF tcall.args.bucket = "x" THEN exported.elems[k].pts[1].y
                                ELSE exported.elems[k].pts[1].x :
        k \in DOMAIN exported.elems}

RLeq(a, b) == ~RLess(b, a) /\ ~IsNaN(a) /\ ~IsNaN(b)

\* the coordinate lies in the view range it was computed from
InView(c) == RLeq(c.view.lo[1], c.v) /\ RLeq(c.v, c.view.hi[1])

StackRendered == tcall.op \in {"render_error_markers", "render_error_markers_to_ax"}

\* C29 as stated: for any number of markers in a bucket and any view range of
\* positive width, every auto-positioned coordinate lies inside the view
\* range.
C29_Original ==
    StackRendered => \A c \in StackedCoords : ~c.given => InView(c)

\* C29: the auto-positioned coordinate of the i-th marker of a bucket (from
\* 0) lies inside the view range it was computed from exactly for i <= 11;
\* from the thirteenth marker on it lies below the lower end of the range.
C29_FirstTwelveInView ==
    StackRendered =>
        /\ Cardinality(StackedCoords) = tcall.args.n
        /\ \A c \in StackedCoords :
               /\ ~c.given /\ c.view = tcall.args.view
               /\ c.i <= 11 => InView(c)
               /\ c.i >= 12 => RLess(c.v, c.view.lo[1])

\* thirteen markers were stacked: the last has index 12
C29_Witness ==
    /\ StackRendered /\ tcall.args.n = 13
    /\ \E c \in StackedCoords : c.i = 12 /\ ~InView(c)
    /\ \E c \in StackedCoords : c.i = 11 /\ InView(c)

\* ===================================================================
\* Specifications
\* ===================================================================
AggIdle == adf = <<>> /\ acall = NoCall /\ adrawn = <<>> /\ alog = <<>>

GroupsIdle == gdf = <<>> /\ ggroups = <<>> /\ gout = NoOutcome

LimIdle ==
    ldf = <<>> /\ lfilters = <<>> /\ lcall = NoLimCall /\ lout = NoLimits /\ lheld = <<>>

TileIdle == TileInit

BoardIdle == BoardInit

DialogIdle == mdialog = NoMarkersDialog

\* the aggregation engine
AggStart == AggInit /\ GroupsIdle /\ LimIdle /\ TileIdle /\ BoardIdle /\ DialogIdle

SpecAgg == AggStart /\ [][AggNext]_vars

\* group expansion
GroupsStart == GroupsInit /\ AggIdle /\ LimIdle /\ TileIdle /\ BoardIdle /\ DialogIdle

GroupsNext == GroupsExpand

SpecGroups == GroupsStart /\ [][GroupsNext]_vars

\* the shared-limits calculators
LimStart == LimInit /\ AggIdle /\ GroupsIdle /\ TileIdle /\ BoardIdle /\ DialogIdle

SpecLim == LimStart /\ [][LimNext]_vars

\* one tile
Init == TileInit /\ AggIdle /\ GroupsIdle /\ LimIdle /\ BoardIdle /\ DialogIdle

Spec == Init /\ [][TileNext]_vars

\* the main window's grid
BoardStart == BoardInit /\ AggIdle /\ GroupsIdle /\ LimIdle /\ TileIdle /\ DialogIdle

SpecBoard == BoardStart /\ [][BoardNext]_vars

\* the project-building functions of api.py
ApiStart == ApiInit /\ AggIdle /\ GroupsIdle /\ TileIdle /\ BoardIdle /\ DialogIdle

SpecApi == ApiStart /\ [][ApiNext]_vars

\* the tile's marker-management dialog
DialogStart == DialogInit /\ AggIdle /\ GroupsIdle /\ LimIdle /\ BoardIdle

SpecDialog == DialogStart /\ [][DialogNext]_vars

\* the marker renderers on stacks of markers
StackStart == StackInit /\ AggIdle /\ GroupsIdle /\ LimIdle /\ BoardIdle /\ DialogIdle

SpecStack == StackStart /\ [][StackNext]_vars

\* the grid's layout operations
GridStart == GridInit /\ AggIdle /\ GroupsIdle /\ LimIdle /\ TileIdle /\ DialogIdle

SpecGrid == GridStart /\ [][GridNext]_vars

\* overlapping tiles under the removal of rows and columns
SpecOverlap == GridStart /\ [][OverlapNext]_vars

====
